---------------------------- MODULE Spec2Model ----------------------------
(***************************************************************************)
(* Model of gammapy/catalog/fermi.py: the per-source objects of the        *)
(* Fermi-LAT catalogs (3FGL, 4FGL, 2FHL, 3FHL, 2PC, 3PC), their flux-point *)
(* tables, spectral models and spatial models, and the catalogs that hand  *)
(* them out.                                                               *)
(*                                                                         *)
(* A source object is a catalog tag plus its rows (data, data_extended,    *)
(* data_spectral).  Every accessor of the code is one action: it computes  *)
(* the value the accessor returns (ret) or the exception it raises (exc).  *)
(* A catalog object is the record of its fields.                           *)
(*                                                                         *)
(* Numbers are integers; the float NaN and the masked constant of a masked *)
(* table are the values NaN and Masked.  A string is the sequence of its   *)
(* pieces, a piece being one whitespace character or a run of other        *)
(* characters, so that str.strip() has something to remove.                *)
(***************************************************************************)
EXTENDS Integers, Sequences, FiniteSets, TLC

VARIABLES
    cat,            \* catalog of the source object: the class of self
    data,           \* self.data: the row of the main catalog table
    data_extended,  \* self.data_extended: row of ExtendedSources, or None
    data_spectral,  \* self.data_spectral: row of the spectral table, or None
    aux,            \* PULSAR_SED table of the 2PC auxiliary file, or None
    called,         \* the accessor that ran last ("none" before any call)
    arg,            \* the argument it was called with ("-" when it has none)
    ret,            \* what it returned (None when nothing or when it raised)
    exc,            \* the exception it raised ("none" when it returned)
    consulted,      \* the auxiliary rows the accessor read
    file,           \* the catalog file a catalog is built from, or None
    catalog         \* the catalog object: its fields, or None before it is built

vars == <<cat, data, data_extended, data_spectral, aux, called, arg, ret, exc,
          consulted, file, catalog>>

\* Python's None, the float NaN, the masked constant np.ma.masked, a number
None == [k |-> "None"]
NaN == [k |-> "nan"]
Masked == [k |-> "masked"]
Num(n) == [k |-> "num", v |-> n]

(***************************************************************************)
(* Bounds of the model.                                                    *)
(***************************************************************************)
\* number of energy bins of a modelled flux-point row
MaxBins == 2
\* longest run of whitespace put before or after a catalog string
MaxPad == 1

(***************************************************************************)
(* Float arithmetic with NaN, as numpy computes it.                        *)
(***************************************************************************)
np_isnan(x) == x = NaN

np_abs(x) == IF x = NaN THEN NaN ELSE IF x.v < 0 THEN Num(-x.v) ELSE x

Add(x, y) == IF x = NaN \/ y = NaN THEN NaN ELSE Num(x.v + y.v)

Mul(x, y) == IF x = NaN \/ y = NaN THEN NaN ELSE Num(x.v * y.v)

\* x / y; the modelled rows keep y # 0 and the quotient exact
Div(x, y) == IF x = NaN \/ y = NaN THEN NaN ELSE Num(x.v \div y.v)

\* x < y: every comparison with NaN is False
Less(x, y) == x # NaN /\ y # NaN /\ x.v < y.v

LessEq(x, y) == x # NaN /\ y # NaN /\ x.v <= y.v

\* x == y on floats: NaN equals nothing, itself included
FloatEq(x, y) == x # NaN /\ y # NaN /\ x = y

Column(rows, k) == [i \in DOMAIN rows |-> rows[i][k]]

(***************************************************************************)
(* compute_flux_points_ul (lines 57-62).                                   *)
(***************************************************************************)
compute_flux_points_ul_noerr(quantity, quantity_errp) == quantity

compute_flux_points_ul(quantity, quantity_errp) ==
    Add(Mul(Num(2), quantity_errp), quantity)

\* table[name] = nan * unit; ul = compute_flux_points_ul(q, q_errp);
\* table[name][is_ul] = ul[is_ul]
UlColumn(is_ul, q, q_errp) ==
    [i \in DOMAIN q |->
        IF is_ul[i] THEN compute_flux_points_ul(q[i], q_errp[i]) ELSE NaN]

(***************************************************************************)
(* Flux-point tables.  A table is the record of its columns, a column the  *)
(* sequence of its values, one per energy bin.  Unc_Flux_Band and its      *)
(* likes hold a pair <<lower, upper>> per bin: flux_err[:, 0] is the       *)
(* column of the first components.                                         *)
(***************************************************************************)
\* np.isnan(table["flux_errn"]): 4FGL line 620
IsUl4FGL_never(flux_errn) == [i \in DOMAIN flux_errn |-> FALSE]

IsUl4FGL(flux_errn) == [i \in DOMAIN flux_errn |-> np_isnan(flux_errn[i])]

\* 3FGL line 943
IsUl3FGL(flux_errn) == [i \in DOMAIN flux_errn |-> np_isnan(flux_errn[i])]

\* 2FHL line 1127
IsUl2FHL(flux_errn) == [i \in DOMAIN flux_errn |-> np_isnan(flux_errn[i])]

\* 3FHL line 1307
IsUl3FHL(flux_errn) == [i \in DOMAIN flux_errn |-> np_isnan(flux_errn[i])]

\* 2PC line 1539: np.where(table["e2dnde_err"] == 0, True, False)
IsUl2PC_nan(e2dnde_err) ==
    [i \in DOMAIN e2dnde_err |->
        np_isnan(e2dnde_err[i]) \/ FloatEq(e2dnde_err[i], Num(0))]

IsUl2PC(e2dnde_err) ==
    [i \in DOMAIN e2dnde_err |-> FloatEq(e2dnde_err[i], Num(0))]

\* 3PC line 1845: np.isnan(flux_err[:, 0]) | (sig < 2)
IsUl3PC_le(flux_err_0, sig) ==
    [i \in DOMAIN sig |->
        np_isnan(flux_err_0[i]) \/ LessEq(sig[i], Num(2))]

IsUl3PC(flux_err_0, sig) ==
    [i \in DOMAIN sig |->
        np_isnan(flux_err_0[i]) \/ Less(sig[i], Num(2))]

\* np.abs(flux_err[:, 0])
AbsColumn(c) == [i \in DOMAIN c |-> np_abs(c[i])]

\* nuFnu * flux_err[:, k] / flux
ScaledErr(nuFnu, err, flux) ==
    [i \in DOMAIN flux |-> Div(Mul(nuFnu[i], err[i]), flux[i])]

\* the table of the catalogs that give asymmetric errors and nuFnu
FermiTable(flux, flux_err, nuFnu, sqrt_ts, is_ul) ==
    LET flux_errn == AbsColumn(Column(flux_err, 1))
        flux_errp == Column(flux_err, 2)
        e2dnde_errp == ScaledErr(nuFnu, Column(flux_err, 2), flux)
    IN  [flux |-> flux,
         flux_errn |-> flux_errn,
         flux_errp |-> flux_errp,
         e2dnde |-> nuFnu,
         e2dnde_errn |-> AbsColumn(ScaledErr(nuFnu, Column(flux_err, 1), flux)),
         e2dnde_errp |-> e2dnde_errp,
         is_ul |-> is_ul,
         flux_ul |-> UlColumn(is_ul, flux, flux_errp),
         e2dnde_ul |-> UlColumn(is_ul, nuFnu, e2dnde_errp),
         sqrt_ts |-> sqrt_ts]

\* SourceCatalogObject4FGL.flux_points_table
FluxPointsTable4FGL(d) ==
    FermiTable(d.Flux_Band, d.Unc_Flux_Band, d.nuFnu_Band, d.Sqrt_TS_Band,
               IsUl4FGL(AbsColumn(Column(d.Unc_Flux_Band, 1))))

\* SourceCatalogObject3FGL.flux_points_table; d.Flux is the list of the
\* columns "Flux" + suffix over _energy_edges_suffix
FluxPointsTable3FGL(d) ==
    FermiTable(d.Flux, d.Unc_Flux, d.nuFnu, d.Sqrt_TS,
               IsUl3FGL(AbsColumn(Column(d.Unc_Flux, 1))))

\* SourceCatalogObject2FHL.flux_points_table: no e2dnde, no sqrt_ts
FluxPointsTable2FHL(d) ==
    LET flux_errn == AbsColumn(Column(d.Unc_Flux, 1))
        flux_errp == Column(d.Unc_Flux, 2)
        is_ul == IsUl2FHL(flux_errn)
    IN  [flux |-> d.Flux,
         flux_errn |-> flux_errn,
         flux_errp |-> flux_errp,
         is_ul |-> is_ul,
         flux_ul |-> UlColumn(is_ul, d.Flux, flux_errp)]

\* SourceCatalogObject3FHL.flux_points_table
FluxPointsTable3FHL(d) ==
    FermiTable(d.Flux_Band, d.Unc_Flux_Band, d.nuFnu, d.Sqrt_TS_Band,
               IsUl3FHL(AbsColumn(Column(d.Unc_Flux_Band, 1))))

\* SourceCatalogObject2PC.flux_points_table; fp_data is None when the
\* auxiliary file or its PULSAR_SED extension is missing
FluxPointsTable2PC(fp_data) ==
    IF fp_data = None THEN None
    ELSE LET is_ul == IsUl2PC(fp_data.Unc_EnergyFlux)
         IN  [flux |-> fp_data.PhotonFlux,
              flux_err |-> fp_data.Unc_PhotonFlux,
              e2dnde |-> fp_data.EnergyFlux,
              e2dnde_err |-> fp_data.Unc_EnergyFlux,
              is_ul |-> is_ul,
              flux_ul |-> UlColumn(is_ul, fp_data.PhotonFlux,
                                   fp_data.Unc_PhotonFlux),
              e2dnde_ul |-> UlColumn(is_ul, fp_data.EnergyFlux,
                                     fp_data.Unc_EnergyFlux)]

\* SourceCatalogObject3PC.flux_points_table
FluxPointsTable3PC(fp_data) ==
    IF fp_data = None THEN None
    ELSE FermiTable(fp_data.Flux_Band, fp_data.Unc_Flux_Band,
                    fp_data.nuFnu_Band, fp_data.Sqrt_TS_Band,
                    IsUl3PC(Column(fp_data.Unc_Flux_Band, 1),
                            fp_data.Sqrt_TS_Band))

(***************************************************************************)
(* The source objects a catalog hands out, for the flux-point accessors.   *)
(***************************************************************************)
Catalogs == {"3FGL", "4FGL", "2FHL", "3FHL", "2PC", "3PC"}

\* a row that carries none of the columns an accessor reads
EmptyRow == [k |-> "row"]

\* one energy bin of a catalog with asymmetric errors: the flux, the pair
\* <<lower, upper>> of its error, nuFnu and sqrt(TS)
FermiBins ==
    [flux : {Num(1), Num(2)},
     unc : {NaN, Num(-1)} \X {NaN, Num(1)},
     nuFnu : {Num(2)},
     sig : {NaN, Num(1), Num(2), Num(3)}]

\* one row of the PULSAR_SED extension of a 2PC auxiliary file
PC2Bins ==
    [flux : {Num(1), Num(2)},
     flux_err : {NaN, Num(0), Num(1)},
     e2dnde : {Num(2)},
     e2dnde_err : {NaN, Num(0), Num(1)}]

SeqsUpTo(S, n) == UNION {[1..m -> S] : m \in 1..n}

Field(bins, f) == [i \in DOMAIN bins |-> bins[i][f]]

Row4FGL(bins) ==
    [Flux_Band |-> Field(bins, "flux"), Unc_Flux_Band |-> Field(bins, "unc"),
     nuFnu_Band |-> Field(bins, "nuFnu"), Sqrt_TS_Band |-> Field(bins, "sig")]

Row3FGL(bins) ==
    [Flux |-> Field(bins, "flux"), Unc_Flux |-> Field(bins, "unc"),
     nuFnu |-> Field(bins, "nuFnu"), Sqrt_TS |-> Field(bins, "sig")]

Row2FHL(bins) ==
    [Flux |-> Field(bins, "flux"), Unc_Flux |-> Field(bins, "unc")]

Row3FHL(bins) ==
    [Flux_Band |-> Field(bins, "flux"), Unc_Flux_Band |-> Field(bins, "unc"),
     nuFnu |-> Field(bins, "nuFnu"), Sqrt_TS_Band |-> Field(bins, "sig")]

Sed2PC(bins) ==
    [PhotonFlux |-> Field(bins, "flux"),
     Unc_PhotonFlux |-> Field(bins, "flux_err"),
     EnergyFlux |-> Field(bins, "e2dnde"),
     Unc_EnergyFlux |-> Field(bins, "e2dnde_err")]

InitFluxPoints ==
    /\ cat \in Catalogs
    /\ \/ /\ cat = "4FGL"
          /\ data \in {Row4FGL(b) : b \in SeqsUpTo(FermiBins, MaxBins)}
          /\ data_spectral = None /\ aux = None
       \/ /\ cat = "3FGL"
          /\ data \in {Row3FGL(b) : b \in SeqsUpTo(FermiBins, MaxBins)}
          /\ data_spectral = None /\ aux = None
       \/ /\ cat = "2FHL"
          /\ data \in {Row2FHL(b) : b \in SeqsUpTo(FermiBins, MaxBins)}
          /\ data_spectral = None /\ aux = None
       \/ /\ cat = "3FHL"
          /\ data \in {Row3FHL(b) : b \in SeqsUpTo(FermiBins, MaxBins)}
          /\ data_spectral = None /\ aux = None
       \/ /\ cat = "2PC"
          /\ data = EmptyRow /\ data_spectral = None
          /\ aux \in {None} \cup {Sed2PC(b) : b \in SeqsUpTo(PC2Bins, MaxBins)}
       \/ /\ cat = "3PC"
          /\ data = EmptyRow /\ aux = None
          /\ data_spectral \in
                {None} \cup {Row4FGL(b) : b \in SeqsUpTo(FermiBins, MaxBins)}
    /\ data_extended = None
    /\ called = "none" /\ arg = "-" /\ ret = None /\ exc = "none"
    /\ consulted = {}
    /\ file = None /\ catalog = None

Rows == <<cat, data, data_extended, data_spectral, aux, file, catalog>>

\* an accessor that returns `value` after reading the rows `read`
Returns(name, argument, value, read) ==
    /\ called' = name
    /\ arg' = argument
    /\ ret' = value
    /\ exc' = "none"
    /\ consulted' = read
    /\ UNCHANGED Rows

\* an accessor that raises `error` after reading the rows `read`
Raises(name, argument, error, read) ==
    /\ called' = name
    /\ arg' = argument
    /\ ret' = None
    /\ exc' = error
    /\ consulted' = read
    /\ UNCHANGED Rows

flux_points_table_4FGL ==
    /\ cat = "4FGL"
    /\ Returns("flux_points_table", "-", FluxPointsTable4FGL(data), {})

flux_points_table_3FGL ==
    /\ cat = "3FGL"
    /\ Returns("flux_points_table", "-", FluxPointsTable3FGL(data), {})

flux_points_table_2FHL ==
    /\ cat = "2FHL"
    /\ Returns("flux_points_table", "-", FluxPointsTable2FHL(data), {})

flux_points_table_3FHL ==
    /\ cat = "3FHL"
    /\ Returns("flux_points_table", "-", FluxPointsTable3FHL(data), {})

flux_points_table_2PC ==
    /\ cat = "2PC"
    /\ Returns("flux_points_table", "-", FluxPointsTable2PC(aux), {"aux"})

flux_points_table_3PC ==
    /\ cat = "3PC"
    /\ Returns("flux_points_table", "-", FluxPointsTable3PC(data_spectral),
               {"data_spectral"})

NextFluxPoints ==
    \/ flux_points_table_4FGL
    \/ flux_points_table_3FGL
    \/ flux_points_table_2FHL
    \/ flux_points_table_3FHL
    \/ flux_points_table_2PC
    \/ flux_points_table_3PC

SpecFluxPoints == InitFluxPoints /\ [][NextFluxPoints]_vars

(***************************************************************************)
(* Properties of the flux-point tables (under SpecFluxPoints).             *)
(***************************************************************************)
HasTable == called = "flux_points_table" /\ ret # None

\* the catalog's flux bins as the accessor read them: the column of lower
\* errors, and the column of sqrt(TS)
CatalogLowerError ==
    CASE cat = "4FGL" -> Column(data.Unc_Flux_Band, 1)
      [] cat = "3FGL" -> Column(data.Unc_Flux, 1)
      [] cat = "2FHL" -> Column(data.Unc_Flux, 1)
      [] cat = "3FHL" -> Column(data.Unc_Flux_Band, 1)
      [] cat = "3PC" -> Column(data_spectral.Unc_Flux_Band, 1)
      [] cat = "2PC" -> aux.Unc_PhotonFlux

AsymmetricCatalogs == {"3FGL", "4FGL", "2FHL", "3FHL", "3PC"}

\* C1 as stated: in all six catalogs a bin whose lower flux error is absent
\* (NaN) is flagged as an upper limit.  For 2PC, whose table has one
\* symmetric error per bin, that error is taken as the lower error.
C1_AbsentLowerErrorIsUl ==
    HasTable =>
        \A i \in DOMAIN ret.is_ul :
            np_isnan(CatalogLowerError[i]) => ret.is_ul[i]

\* C1 amended: in the five catalogs with asymmetric errors (3FGL, 4FGL,
\* 2FHL, 3FHL, 3PC) a bin whose lower flux error is NaN is flagged as an
\* upper limit; the 2PC table has no lower error and flags a bin exactly
\* when its Unc_EnergyFlux equals zero, so a NaN error is not flagged there.
C1_Amended ==
    HasTable =>
        \A i \in DOMAIN ret.is_ul :
            /\ cat \in AsymmetricCatalogs =>
                  (np_isnan(CatalogLowerError[i]) => ret.is_ul[i])
            /\ cat = "2PC" =>
                  (ret.is_ul[i] <=>
                      (aux.Unc_EnergyFlux[i] # NaN
                       /\ aux.Unc_EnergyFlux[i].v = 0))

C1_Witness ==
    /\ HasTable
    /\ cat = "4FGL"
    /\ \E i \in DOMAIN ret.is_ul :
          np_isnan(CatalogLowerError[i]) /\ ret.is_ul[i]

\* the upper error of a quantity of the table: its errp column, or the one
\* symmetric error column of a 2PC table
UpperError(t, q) ==
    IF (q \o "_errp") \in DOMAIN t THEN t[q \o "_errp"] ELSE t[q \o "_err"]

UlAgrees(t, q, i) ==
    IF t.is_ul[i]
    THEN t[q \o "_ul"][i] = Add(Mul(Num(2), UpperError(t, q)[i]), t[q][i])
    ELSE t[q \o "_ul"][i] = NaN

\* C2: in every flux-point table, an upper-limit bin has
\* flux_ul = 2 * flux_errp + flux (and e2dnde_ul = 2 * e2dnde_errp + e2dnde
\* where the table has e2dnde_ul), and a bin that is no upper limit has NaN
\* in flux_ul and e2dnde_ul.  (The 2PC table's upper error is its symmetric
\* error column.)
C2_UpperLimitValue ==
    HasTable =>
        \A i \in DOMAIN ret.is_ul :
            /\ UlAgrees(ret, "flux", i)
            /\ "e2dnde_ul" \in DOMAIN ret => UlAgrees(ret, "e2dnde", i)

C2_Witness ==
    /\ HasTable
    /\ "e2dnde_ul" \in DOMAIN ret
    /\ \E i, j \in DOMAIN ret.is_ul :
          /\ ret.is_ul[i] /\ ret.flux_ul[i] # NaN /\ ret.e2dnde_ul[i] # NaN
          /\ ret.flux_ul[i] # ret.flux[i]
          /\ ~ret.is_ul[j] /\ ret.flux_ul[j] = NaN

\* C3: in the 3PC table a bin is an upper limit if and only if its lower
\* flux error is NaN or its Sqrt_TS_Band is strictly below 2; significance
\* exactly 2 with a lower error that is a number is no upper limit.
C3_UpperLimit3PC ==
    (HasTable /\ cat = "3PC") =>
        \A i \in DOMAIN ret.is_ul :
            LET lower == data_spectral.Unc_Flux_Band[i][1]
                sig == data_spectral.Sqrt_TS_Band[i]
            IN  ret.is_ul[i] <=> (lower = NaN \/ (sig # NaN /\ sig.v < 2))

C3_Witness ==
    /\ HasTable /\ cat = "3PC"
    /\ \E i, j \in DOMAIN ret.is_ul :
          /\ data_spectral.Sqrt_TS_Band[i] = Num(2)
          /\ data_spectral.Unc_Flux_Band[i][1] # NaN
          /\ ~ret.is_ul[i]
          /\ data_spectral.Sqrt_TS_Band[j] = Num(1)
          /\ data_spectral.Unc_Flux_Band[j][1] # NaN
          /\ ret.is_ul[j]

(***************************************************************************)
(* Strings.  str.strip() removes the leading and the trailing whitespace.  *)
(***************************************************************************)
Whitespace == {" ", "\t", "\n"}

RECURSIVE lstrip(_)
lstrip(s) ==
    IF s # <<>> /\ Head(s) \in Whitespace THEN lstrip(Tail(s)) ELSE s

RECURSIVE rstrip(_)
rstrip(s) ==
    IF s # <<>> /\ s[Len(s)] \in Whitespace
    THEN rstrip(SubSeq(s, 1, Len(s) - 1))
    ELSE s

strip(s) == rstrip(lstrip(s))

\* runs of blanks of length 0..n
RECURSIVE Blanks(_)
Blanks(n) ==
    IF n = 0 THEN {<<>>}
    ELSE Blanks(n - 1) \cup {[i \in 1..n |-> " "]}

\* a catalog string: the text with blanks before and after it
Padded(text) == {pre \o text \o post : pre \in Blanks(MaxPad), post \in Blanks(MaxPad)}

(***************************************************************************)
(* Rows for the spectral models.  A row is a function from column names;   *)
(* every numeric column holds a number of its own, so that a parameter     *)
(* read from the wrong column shows.                                       *)
(***************************************************************************)
Range(f) == {f[i] : i \in DOMAIN f}

IndexOf(cols, c) == CHOOSE i \in DOMAIN cols : cols[i] = c

Seeds == {0, 1}

NumericRow(cols, seed) ==
    [c \in Range(cols) |-> Num(2 * IndexOf(cols, c) + seed)]

\* f with the columns of g added or replaced
Updated(f, g) ==
    [c \in DOMAIN f \cup DOMAIN g |-> IF c \in DOMAIN g THEN g[c] ELSE f[c]]

\* the model Model.create(tag, "spectral", **pars) builds, with the errors
\* set on its parameters afterwards
SpectralModel(tag, pars, errs) ==
    [k |-> "model", tag |-> tag, pars |-> pars, errs |-> errs]

ValueError == [k |-> "raise", error |-> "ValueError"]

(***************************************************************************)
(* SourceCatalogObject4FGL.spectral_model (lines 535-598).                 *)
(***************************************************************************)
nan_to_num(x) == IF x = NaN THEN Num(0) ELSE x

PowerLaw4FGL(d) ==
    SpectralModel("PowerLawSpectralModel",
        [reference |-> d["Pivot_Energy"],
         amplitude |-> d["PL_Flux_Density"],
         index |-> d["PL_Index"]],
        [amplitude |-> d["Unc_PL_Flux_Density"],
         index |-> d["Unc_PL_Index"]])

LogParabola4FGL(d) ==
    SpectralModel("LogParabolaSpectralModel",
        [reference |-> d["Pivot_Energy"],
         amplitude |-> d["LP_Flux_Density"],
         alpha |-> d["LP_Index"],
         beta |-> d["LP_beta"]],
        [amplitude |-> d["Unc_LP_Flux_Density"],
         alpha |-> d["Unc_LP_Index"],
         beta |-> d["Unc_LP_beta"]])

PLSuperExpCutoff4FGLWith(d, tag, S) ==
    SpectralModel(tag,
        [reference |-> d["Pivot_Energy"],
         amplitude |-> d["PLEC_Flux_Density"],
         index_1 |-> d["PLEC_Index" \o S],
         index_2 |-> d["PLEC_Exp_Index"],
         expfactor |-> d["PLEC_Expfactor" \o S]],
        [amplitude |-> d["Unc_PLEC_Flux_Density"],
         index_1 |-> d["Unc_PLEC_Index" \o S],
         index_2 |-> nan_to_num(d["Unc_PLEC_Exp_Index"]),
         expfactor |-> d["Unc_PLEC_Expfactor" \o S]])

PLSuperExpCutoff4FGL_old(d) ==
    PLSuperExpCutoff4FGLWith(d, "SuperExpCutoffPowerLaw4FGLSpectralModel", "")

PLSuperExpCutoff4FGL(d) ==
    IF "PLEC_ExpfactorS" \in DOMAIN d
    THEN PLSuperExpCutoff4FGLWith(
             d, "SuperExpCutoffPowerLaw4FGLDR3SpectralModel", "S")
    ELSE PLSuperExpCutoff4FGLWith(
             d, "SuperExpCutoffPowerLaw4FGLSpectralModel", "")

SpectralModel4FGL(d) ==
    LET spec_type == strip(d["SpectrumType"])
    IN  IF spec_type = <<"PowerLaw">> THEN PowerLaw4FGL(d)
        ELSE IF spec_type = <<"LogParabola">> THEN LogParabola4FGL(d)
        ELSE IF spec_type = <<"PLSuperExpCutoff">> THEN PLSuperExpCutoff4FGL(d)
        ELSE ValueError

(***************************************************************************)
(* SourceCatalogObject3FGL.spectral_model (lines 823-887).                 *)
(***************************************************************************)
PowerLaw3FGL(d) ==
    SpectralModel("PowerLawSpectralModel",
        [amplitude |-> d["Flux_Density"],
         reference |-> d["Pivot_Energy"],
         index |-> d["Spectral_Index"]],
        [amplitude |-> d["Unc_Flux_Density"],
         index |-> d["Unc_Spectral_Index"]])

PLExpCutoff3FGL(d) ==
    SpectralModel("ExpCutoffPowerLaw3FGLSpectralModel",
        [amplitude |-> d["Flux_Density"],
         reference |-> d["Pivot_Energy"],
         index |-> d["Spectral_Index"],
         ecut |-> d["Cutoff"]],
        [amplitude |-> d["Unc_Flux_Density"],
         index |-> d["Unc_Spectral_Index"],
         ecut |-> d["Unc_Cutoff"]])

LogParabola3FGL(d) ==
    SpectralModel("LogParabolaSpectralModel",
        [amplitude |-> d["Flux_Density"],
         reference |-> d["Pivot_Energy"],
         alpha |-> d["Spectral_Index"],
         beta |-> d["beta"]],
        [amplitude |-> d["Unc_Flux_Density"],
         alpha |-> d["Unc_Spectral_Index"],
         beta |-> d["Unc_beta"]])

PLSuperExpCutoff3FGL_noerr(d) ==
    SpectralModel("SuperExpCutoffPowerLaw3FGLSpectralModel",
        [amplitude |-> d["Flux_Density"],
         reference |-> d["Pivot_Energy"],
         index_1 |-> d["Spectral_Index"],
         index_2 |-> d["Exp_Index"],
         ecut |-> d["Cutoff"]],
        [amplitude |-> d["Unc_Flux_Density"],
         index_1 |-> d["Unc_Spectral_Index"],
         ecut |-> d["Unc_Cutoff"]])

PLSuperExpCutoff3FGL(d) ==
    SpectralModel("SuperExpCutoffPowerLaw3FGLSpectralModel",
        [amplitude |-> d["Flux_Density"],
         reference |-> d["Pivot_Energy"],
         index_1 |-> d["Spectral_Index"],
         index_2 |-> d["Exp_Index"],
         ecut |-> d["Cutoff"]],
        [amplitude |-> d["Unc_Flux_Density"],
         index_1 |-> d["Unc_Spectral_Index"],
         index_2 |-> d["Unc_Exp_Index"],
         ecut |-> d["Unc_Cutoff"]])

SpectralModel3FGL(d) ==
    LET spec_type == strip(d["SpectrumType"])
    IN  IF spec_type = <<"PowerLaw">> THEN PowerLaw3FGL(d)
        ELSE IF spec_type = <<"PLExpCutoff">> THEN PLExpCutoff3FGL(d)
        ELSE IF spec_type = <<"LogParabola">> THEN LogParabola3FGL(d)
        ELSE IF spec_type = <<"PLSuperExpCutoff">> THEN PLSuperExpCutoff3FGL(d)
        ELSE ValueError

(***************************************************************************)
(* SourceCatalogObject3FHL.spectral_model (lines 1248-1285).               *)
(***************************************************************************)
PowerLaw3FHL_spectral_index(d) ==
    SpectralModel("PowerLawSpectralModel",
        [reference |-> d["Pivot_Energy"],
         amplitude |-> d["Flux_Density"],
         index |-> d["Spectral_Index"]],
        [amplitude |-> d["Unc_Flux_Density"],
         index |-> d["Unc_Spectral_Index"]])

PowerLaw3FHL(d) ==
    SpectralModel("PowerLawSpectralModel",
        [reference |-> d["Pivot_Energy"],
         amplitude |-> d["Flux_Density"],
         index |-> d["PowerLaw_Index"]],
        [amplitude |-> d["Unc_Flux_Density"],
         index |-> d["Unc_PowerLaw_Index"]])

LogParabola3FHL(d) ==
    SpectralModel("LogParabolaSpectralModel",
        [reference |-> d["Pivot_Energy"],
         amplitude |-> d["Flux_Density"],
         alpha |-> d["Spectral_Index"],
         beta |-> d["beta"]],
        [amplitude |-> d["Unc_Flux_Density"],
         alpha |-> d["Unc_Spectral_Index"],
         beta |-> d["Unc_beta"]])

SpectralModel3FHL_default(d) ==
    LET spec_type == strip(d["SpectrumType"])
    IN  IF spec_type = <<"LogParabola">> THEN LogParabola3FHL(d)
        ELSE PowerLaw3FHL(d)

SpectralModel3FHL(d) ==
    LET spec_type == strip(d["SpectrumType"])
    IN  IF spec_type = <<"PowerLaw">> THEN PowerLaw3FHL(d)
        ELSE IF spec_type = <<"LogParabola">> THEN LogParabola3FHL(d)
        ELSE ValueError

(***************************************************************************)
(* SourceCatalogObject3PC.spectral_model (lines 1761-1818).                *)
(***************************************************************************)
\* isinstance(x, np.ma.core.masked_array): a masked element of a row is the
\* masked constant, an instance of MaskedArray; a number is not
IsMaskedArray(x) == x = Masked

\* -x
Neg(x) == IF x \in {Masked, NaN} THEN x ELSE Num(-x.v)

Fit3PC_bfr(d) ==
    SpectralModel("SuperExpCutoffPowerLaw4FGLDR3SpectralModel",
        [reference |-> d["Pivot_Energy_bfr"],
         amplitude |-> d["PLEC_Flux_Density_bfr"],
         index_1 |-> Neg(d["PLEC_IndexS_bfr"]),
         index_2 |-> d["PLEC_Exp_Index_bfr"],
         expfactor |-> d["PLEC_ExpfactorS_bfr"]],
        [amplitude |-> d["Unc_PLEC_Flux_Density_bfr"],
         index_1 |-> d["Unc_PLEC_IndexS_bfr"],
         index_2 |-> d["Unc_PLEC_Exp_Index_bfr"],
         expfactor |-> d["Unc_PLEC_ExpfactorS_bfr"]])

Fit3PC_b23(d) ==
    SpectralModel("SuperExpCutoffPowerLaw4FGLDR3SpectralModel",
        [reference |-> d["Pivot_Energy_b23"],
         amplitude |-> d["PLEC_Flux_Density_b23"],
         index_1 |-> Neg(d["PLEC_IndexS_b23"]),
         index_2 |-> d["PLEC_Exp_Index_b23"],
         expfactor |-> d["PLEC_ExpfactorS_b23"]],
        [amplitude |-> d["Unc_PLEC_Flux_Density_b23"],
         index_1 |-> d["Unc_PLEC_IndexS_b23"],
         expfactor |-> d["Unc_PLEC_ExpfactorS_b23"]])

\* the test of lines 1783-1785: the "b free" columns are used
UseBfr3PC_always(d, fit) == fit # "b 23"

UseBfr3PC(d, fit) ==
    ~(IsMaskedArray(d["PLEC_IndexS_bfr"]) \/ fit = "b 23")

SpectralModel3PC(d, fit) ==
    IF d = None \/ d["SpectrumType"] # <<"PLSuperExpCutoff4">> THEN None
    ELSE IF UseBfr3PC(d, fit) THEN Fit3PC_bfr(d)
    ELSE Fit3PC_b23(d)

(***************************************************************************)
(* The source objects for the spectral models.                             *)
(***************************************************************************)
\* texts found in, or near to those found in, a SpectrumType column
SpectrumTexts ==
    {<<"PowerLaw">>, <<"LogParabola">>, <<"PLExpCutoff">>,
     <<"PLSuperExpCutoff">>, <<"PLSuperExpCutoff4">>, <<"PlSuperExpCutoff">>,
     <<"powerlaw">>, <<"Power", " ", "Law">>, <<>>}

SpectrumTypes == UNION {Padded(t) : t \in SpectrumTexts}

Columns4FGL ==
    <<"Pivot_Energy",
      "PL_Flux_Density", "Unc_PL_Flux_Density", "PL_Index", "Unc_PL_Index",
      "LP_Flux_Density", "Unc_LP_Flux_Density", "LP_Index", "Unc_LP_Index",
      "LP_beta", "Unc_LP_beta",
      "PLEC_Flux_Density", "Unc_PLEC_Flux_Density",
      "PLEC_Index", "Unc_PLEC_Index", "PLEC_Expfactor", "Unc_PLEC_Expfactor",
      "PLEC_Exp_Index", "Unc_PLEC_Exp_Index">>

\* the columns the DR3 and later releases add
Columns4FGLDR3 ==
    Columns4FGL \o
    <<"PLEC_IndexS", "Unc_PLEC_IndexS", "PLEC_ExpfactorS", "Unc_PLEC_ExpfactorS">>

Columns3FGL ==
    <<"Pivot_Energy", "Flux_Density", "Unc_Flux_Density",
      "Spectral_Index", "Unc_Spectral_Index", "PowerLaw_Index",
      "Cutoff", "Unc_Cutoff", "beta", "Unc_beta",
      "Exp_Index", "Unc_Exp_Index">>

Columns3FHL ==
    <<"Pivot_Energy", "Flux_Density", "Unc_Flux_Density",
      "Spectral_Index", "Unc_Spectral_Index",
      "PowerLaw_Index", "Unc_PowerLaw_Index", "beta", "Unc_beta">>

Columns3PC_b23 ==
    <<"Pivot_Energy_b23", "PLEC_Flux_Density_b23", "Unc_PLEC_Flux_Density_b23",
      "PLEC_IndexS_b23", "Unc_PLEC_IndexS_b23",
      "PLEC_Exp_Index_b23",
      "PLEC_ExpfactorS_b23", "Unc_PLEC_ExpfactorS_b23">>

Columns3PC_bfr ==
    <<"Pivot_Energy_bfr", "PLEC_Flux_Density_bfr", "Unc_PLEC_Flux_Density_bfr",
      "PLEC_IndexS_bfr", "Unc_PLEC_IndexS_bfr",
      "PLEC_Exp_Index_bfr", "Unc_PLEC_Exp_Index_bfr",
      "PLEC_ExpfactorS_bfr", "Unc_PLEC_ExpfactorS_bfr">>

WithType(row, t) == Updated(row, [SpectrumType |-> t])

SpectralRows4FGL ==
    {WithType(Updated(NumericRow(cols, seed), [Unc_PLEC_Exp_Index |-> u]), t) :
        cols \in {Columns4FGL, Columns4FGLDR3}, seed \in Seeds,
        u \in {NaN, Num(1)}, t \in SpectrumTypes}

SpectralRows3FGL ==
    {WithType(NumericRow(Columns3FGL, seed), t) :
        seed \in Seeds, t \in SpectrumTypes}

SpectralRows3FHL ==
    {WithType(NumericRow(Columns3FHL, seed), t) :
        seed \in Seeds, t \in SpectrumTypes}

\* a pulsar whose "b free" fit failed has its _bfr columns masked
MaskedRow(cols) == [c \in Range(cols) |-> Masked]

SpectralRows3PC ==
    {WithType(Updated(NumericRow(Columns3PC_b23 \o Columns3PC_bfr, seed), m), t) :
        seed \in Seeds,
        m \in {MaskedRow(<<>>), MaskedRow(Columns3PC_bfr)},
        t \in Padded(<<"PLSuperExpCutoff4">>) \cup {<<"PowerLaw">>}}

InitSpectral ==
    /\ cat \in {"4FGL", "3FGL", "3FHL", "3PC"}
    /\ \/ /\ cat = "4FGL" /\ data \in SpectralRows4FGL /\ data_spectral = None
       \/ /\ cat = "3FGL" /\ data \in SpectralRows3FGL /\ data_spectral = None
       \/ /\ cat = "3FHL" /\ data \in SpectralRows3FHL /\ data_spectral = None
       \/ /\ cat = "3PC" /\ data = EmptyRow
          /\ data_spectral \in {None} \cup SpectralRows3PC
    /\ data_extended = None /\ aux = None
    /\ called = "none" /\ arg = "-" /\ ret = None /\ exc = "none"
    /\ consulted = {}
    /\ file = None /\ catalog = None

\* the accessor returns the model, or raises the error the outcome names
Outcome(name, argument, outcome, read) ==
    IF outcome.k = "raise"
    THEN Raises(name, argument, outcome.error, read)
    ELSE Returns(name, argument, outcome, read)

spectral_model_4FGL ==
    /\ cat = "4FGL"
    /\ Outcome("spectral_model", "-", SpectralModel4FGL(data), {})

spectral_model_3FGL ==
    /\ cat = "3FGL"
    /\ Outcome("spectral_model", "-", SpectralModel3FGL(data), {})

spectral_model_3FHL ==
    /\ cat = "3FHL"
    /\ Outcome("spectral_model", "-", SpectralModel3FHL(data), {})

Fits3PC == {"auto", "b free", "b 23"}

spectral_model_3PC ==
    /\ cat = "3PC"
    /\ \E fit \in Fits3PC :
          Outcome("spectral_model", fit, SpectralModel3PC(data_spectral, fit),
                  {"data_spectral"})

NextSpectral ==
    \/ spectral_model_4FGL
    \/ spectral_model_3FGL
    \/ spectral_model_3FHL
    \/ spectral_model_3PC

SpecSpectral == InitSpectral /\ [][NextSpectral]_vars

(***************************************************************************)
(* Properties of the spectral models (under SpecSpectral).                 *)
(***************************************************************************)
SpectralCalled(c) == called = "spectral_model" /\ cat = c

StrippedType == strip(data["SpectrumType"])

\* the 4FGL model the claim describes for the row d; index_2_err is the
\* error it gives index_2
C4Model(d, index_2_err) ==
    LET t == strip(d["SpectrumType"])
        dr3 == "PLEC_ExpfactorS" \in DOMAIN d
    IN  CASE t = <<"PowerLaw">> ->
               [k |-> "model", tag |-> "PowerLawSpectralModel",
                pars |-> [reference |-> d["Pivot_Energy"],
                          amplitude |-> d["PL_Flux_Density"],
                          index |-> d["PL_Index"]],
                errs |-> [amplitude |-> d["Unc_PL_Flux_Density"],
                          index |-> d["Unc_PL_Index"]]]
          [] t = <<"LogParabola">> ->
               [k |-> "model", tag |-> "LogParabolaSpectralModel",
                pars |-> [reference |-> d["Pivot_Energy"],
                          amplitude |-> d["LP_Flux_Density"],
                          alpha |-> d["LP_Index"],
                          beta |-> d["LP_beta"]],
                errs |-> [amplitude |-> d["Unc_LP_Flux_Density"],
                          alpha |-> d["Unc_LP_Index"],
                          beta |-> d["Unc_LP_beta"]]]
          [] t = <<"PLSuperExpCutoff">> /\ dr3 ->
               [k |-> "model",
                tag |-> "SuperExpCutoffPowerLaw4FGLDR3SpectralModel",
                pars |-> [reference |-> d["Pivot_Energy"],
                          amplitude |-> d["PLEC_Flux_Density"],
                          index_1 |-> d["PLEC_IndexS"],
                          index_2 |-> d["PLEC_Exp_Index"],
                          expfactor |-> d["PLEC_ExpfactorS"]],
                errs |-> [amplitude |-> d["Unc_PLEC_Flux_Density"],
                          index_1 |-> d["Unc_PLEC_IndexS"],
                          index_2 |-> index_2_err,
                          expfactor |-> d["Unc_PLEC_ExpfactorS"]]]
          [] t = <<"PLSuperExpCutoff">> /\ ~dr3 ->
               [k |-> "model",
                tag |-> "SuperExpCutoffPowerLaw4FGLSpectralModel",
                pars |-> [reference |-> d["Pivot_Energy"],
                          amplitude |-> d["PLEC_Flux_Density"],
                          index_1 |-> d["PLEC_Index"],
                          index_2 |-> d["PLEC_Exp_Index"],
                          expfactor |-> d["PLEC_Expfactor"]],
                errs |-> [amplitude |-> d["Unc_PLEC_Flux_Density"],
                          index_1 |-> d["Unc_PLEC_Index"],
                          index_2 |-> index_2_err,
                          expfactor |-> d["Unc_PLEC_Expfactor"]]]

Accepted4FGL == {<<"PowerLaw">>, <<"LogParabola">>, <<"PLSuperExpCutoff">>}

\* C4 as stated: the 4FGL spectral model is chosen by the stripped
\* SpectrumType, its parameters come from the named columns with
\* Pivot_Energy as reference, and every parameter that has an uncertainty
\* column gets that column as its error (index_2: Unc_PLEC_Exp_Index).
C4_AsStated ==
    (SpectralCalled("4FGL") /\ StrippedType \in Accepted4FGL) =>
        /\ exc = "none"
        /\ ret = C4Model(data, data["Unc_PLEC_Exp_Index"])

\* C4 amended: as stated, except that the error of index_2 is
\* Unc_PLEC_Exp_Index with a NaN replaced by 0 (np.nan_to_num).
C4_Amended ==
    (SpectralCalled("4FGL") /\ StrippedType \in Accepted4FGL) =>
        /\ exc = "none"
        /\ ret = C4Model(data,
                         IF data["Unc_PLEC_Exp_Index"] = NaN THEN Num(0)
                         ELSE data["Unc_PLEC_Exp_Index"])

C4_Witness ==
    /\ SpectralCalled("4FGL")
    /\ data["SpectrumType"] = <<"PLSuperExpCutoff", " ">>
    /\ "PLEC_ExpfactorS" \in DOMAIN data
    /\ data["Unc_PLEC_Exp_Index"] = NaN
    /\ ret.tag = "SuperExpCutoffPowerLaw4FGLDR3SpectralModel"
    /\ ret.errs.index_2 = Num(0)

\* C5: the 3FGL spectral model is chosen by the stripped SpectrumType
\* (PowerLaw, PLExpCutoff, LogParabola, PLSuperExpCutoff), with the
\* parameters from the named columns, amplitude always Flux_Density and
\* reference always Pivot_Energy, and the parameters that get an error are
\* exactly the parameters other than reference.
C5_SpectralModel3FGL ==
    LET t == StrippedType
        d == data
        common == [amplitude |-> d["Flux_Density"],
                   reference |-> d["Pivot_Energy"]]
        own == CASE t = <<"PowerLaw">> ->
                      [tag |-> "PowerLawSpectralModel",
                       pars |-> [index |-> d["Spectral_Index"]]]
                 [] t = <<"PLExpCutoff">> ->
                      [tag |-> "ExpCutoffPowerLaw3FGLSpectralModel",
                       pars |-> [index |-> d["Spectral_Index"],
                                 ecut |-> d["Cutoff"]]]
                 [] t = <<"LogParabola">> ->
                      [tag |-> "LogParabolaSpectralModel",
                       pars |-> [alpha |-> d["Spectral_Index"],
                                 beta |-> d["beta"]]]
                 [] t = <<"PLSuperExpCutoff">> ->
                      [tag |-> "SuperExpCutoffPowerLaw3FGLSpectralModel",
                       pars |-> [index_1 |-> d["Spectral_Index"],
                                 index_2 |-> d["Exp_Index"],
                                 ecut |-> d["Cutoff"]]]
    IN  (SpectralCalled("3FGL")
         /\ t \in {<<"PowerLaw">>, <<"PLExpCutoff">>, <<"LogParabola">>,
                   <<"PLSuperExpCutoff">>}) =>
            /\ exc = "none"
            /\ ret.tag = own.tag
            /\ ret.pars = Updated(own.pars, common)
            /\ DOMAIN ret.errs = DOMAIN ret.pars \ {"reference"}

C5_Witness ==
    /\ SpectralCalled("3FGL")
    /\ StrippedType = <<"PLSuperExpCutoff">>
    /\ data["SpectrumType"] # StrippedType
    /\ ret.tag = "SuperExpCutoffPowerLaw3FGLSpectralModel"
    /\ DOMAIN ret.errs = {"amplitude", "index_1", "index_2", "ecut"}

\* C6: the 3FHL spectral model accepts exactly PowerLaw and LogParabola:
\* PowerLaw takes index and its error from PowerLaw_Index and
\* Unc_PowerLaw_Index, LogParabola takes alpha from Spectral_Index and beta
\* from beta; both take reference from Pivot_Energy and amplitude from
\* Flux_Density.
C6_SpectralModel3FHL ==
    LET t == StrippedType
        d == data
    IN  SpectralCalled("3FHL") =>
            /\ (exc = "none") <=> (t \in {<<"PowerLaw">>, <<"LogParabola">>})
            /\ exc = "none" =>
                  /\ ret.pars.reference = d["Pivot_Energy"]
                  /\ ret.pars.amplitude = d["Flux_Density"]
            /\ t = <<"PowerLaw">> =>
                  /\ ret.tag = "PowerLawSpectralModel"
                  /\ ret.pars.index = d["PowerLaw_Index"]
                  /\ ret.errs.index = d["Unc_PowerLaw_Index"]
            /\ t = <<"LogParabola">> =>
                  /\ ret.tag = "LogParabolaSpectralModel"
                  /\ ret.pars.alpha = d["Spectral_Index"]
                  /\ ret.pars.beta = d["beta"]

C6_Witness ==
    /\ SpectralCalled("3FHL")
    /\ StrippedType = <<"PowerLaw">>
    /\ ret.tag = "PowerLawSpectralModel"
    /\ ret.pars.index = data["PowerLaw_Index"]
    /\ ret.pars.index # data["Spectral_Index"]

AcceptedTypes ==
    [c \in {"3FGL", "4FGL", "3FHL"} |->
        CASE c = "4FGL" ->
               {<<"PowerLaw">>, <<"LogParabola">>, <<"PLSuperExpCutoff">>}
          [] c = "3FGL" ->
               {<<"PowerLaw">>, <<"PLExpCutoff">>, <<"LogParabola">>,
                <<"PLSuperExpCutoff">>}
          [] c = "3FHL" -> {<<"PowerLaw">>, <<"LogParabola">>}]

\* C7: for 3FGL, 4FGL and 3FHL, spectral_model raises ValueError and
\* returns no model whenever the stripped SpectrumType is not one of the
\* catalog's accepted strings, compared exactly and with case; a model is
\* returned only for an accepted string.
C7_ClosedEnumeration ==
    (called = "spectral_model" /\ cat \in DOMAIN AcceptedTypes) =>
        IF StrippedType \in AcceptedTypes[cat]
        THEN exc = "none" /\ ret # None
        ELSE exc = "ValueError" /\ ret = None

C7_Witness ==
    /\ called = "spectral_model" /\ cat = "3FHL"
    /\ StrippedType = <<"powerlaw">>
    /\ exc = "ValueError" /\ ret = None

\* the "b free" fit of a 3PC spectral row, and its "b 23" fit
IsBfrFit(m, d) ==
    /\ m # None
    /\ m.pars.reference = d["Pivot_Energy_bfr"]
    /\ m.pars.amplitude = d["PLEC_Flux_Density_bfr"]
    /\ m.pars.index_2 = d["PLEC_Exp_Index_bfr"]
    /\ m.pars.expfactor = d["PLEC_ExpfactorS_bfr"]
    /\ m.errs.index_1 = d["Unc_PLEC_IndexS_bfr"]

IsB23Fit(m, d) ==
    /\ m # None
    /\ m.pars.reference = d["Pivot_Energy_b23"]
    /\ m.pars.amplitude = d["PLEC_Flux_Density_b23"]
    /\ m.pars.index_2 = d["PLEC_Exp_Index_b23"]
    /\ m.pars.expfactor = d["PLEC_ExpfactorS_b23"]
    /\ m.errs.index_1 = d["Unc_PLEC_IndexS_b23"]

BfrAvailable ==
    data_spectral # None /\ data_spectral["PLEC_IndexS_bfr"] # Masked

Auto3PC == SpectralCalled("3PC") /\ arg = "auto"

\* C10 as stated: spectral_model(fit="auto") of a 3PC source returns the
\* "b free" fit whenever that fit is available, and the "b 23" fit if and
\* only if the "b free" fit is not available.
C10_AsStated ==
    Auto3PC =>
        /\ BfrAvailable => IsBfrFit(ret, data_spectral)
        /\ (data_spectral # None /\ IsB23Fit(ret, data_spectral))
              <=> ~BfrAvailable

\* C10 amended: for a 3PC source that has a spectral row whose SpectrumType
\* is "PLSuperExpCutoff4", spectral_model(fit="auto") returns the "b free"
\* fit when PLEC_IndexS_bfr is not masked and the "b 23" fit if and only if
\* it is masked; for a source without such a row it returns None.
C10_Amended ==
    Auto3PC =>
        IF data_spectral = None
           \/ data_spectral["SpectrumType"] # <<"PLSuperExpCutoff4">>
        THEN ret = None /\ exc = "none"
        ELSE /\ BfrAvailable => IsBfrFit(ret, data_spectral)
             /\ IsB23Fit(ret, data_spectral) <=> ~BfrAvailable

C10_Witness ==
    /\ Auto3PC
    /\ data_spectral # None
    /\ data_spectral["PLEC_IndexS_bfr"] = Masked
    /\ IsB23Fit(ret, data_spectral)
    /\ ~IsBfrFit(ret, data_spectral)

(***************************************************************************)
(* Spatial models.                                                         *)
(***************************************************************************)
Bool(b) == [k |-> "bool", v |-> b]

TypeError == [k |-> "raise", error |-> "TypeError"]

\* SourceCatalogObjectFermiBase.is_pointlike (lines 296-299)
is_pointlike_base_empty_only(d) ==
    LET name == strip(d["Extended_Source_Name"])
    IN  name = <<>>

is_pointlike_base(d) ==
    LET name == strip(d["Extended_Source_Name"])
    IN  name = <<>> \/ strip(name) = <<"--">>

\* SourceCatalogObject2FHL.is_pointlike (lines 1054-1056); Source_Name is
\* held character by character, and s[-1] is the last of them
is_pointlike_2FHL(d) ==
    LET name == strip(d["Source_Name"])
    IN  name[Len(name)] # "e"

\* PointSpatialModel(lon_0=ra, lat_0=dec, frame="icrs"); a parameter's error
\* is 0 until it is set, and the model has no phi_0 attribute
PointSpatialModel(ra, dec) ==
    [k |-> "model", tag |-> "PointSpatialModel", frame |-> "icrs",
     pars |-> [lon_0 |-> ra, lat_0 |-> dec],
     errs |-> [lon_0 |-> Num(0), lat_0 |-> Num(0)],
     phi_0 |-> None]

\* e = (1 - (Model_SemiMinor / Model_SemiMajor) ** 2.0) ** 0.5, kept as the
\* pair it is computed from
Eccentricity(de) ==
    [k |-> "e", minor |-> de["Model_SemiMinor"], major |-> de["Model_SemiMajor"]]

DiskSpatialModel(d, de) ==
    [k |-> "model", tag |-> "DiskSpatialModel", frame |-> "icrs",
     pars |-> [lon_0 |-> d["RAJ2000"], lat_0 |-> d["DEJ2000"],
               r_0 |-> de["Model_SemiMajor"], e |-> Eccentricity(de),
               phi |-> de["Model_PosAng"]],
     errs |-> [lon_0 |-> Num(0), lat_0 |-> Num(0)],
     phi_0 |-> None]

GaussianSpatialModel(d, de) ==
    [k |-> "model", tag |-> "GaussianSpatialModel", frame |-> "icrs",
     pars |-> [lon_0 |-> d["RAJ2000"], lat_0 |-> d["DEJ2000"],
               sigma |-> de["Model_SemiMajor"], e |-> Eccentricity(de),
               phi |-> de["Model_PosAng"]],
     errs |-> [lon_0 |-> Num(0), lat_0 |-> Num(0)],
     phi_0 |-> None]

\* TemplateSpatialModel.read(path / filename)
TemplateSpatialModel(path, filename) ==
    [k |-> "model", tag |-> "TemplateSpatialModel",
     path |-> path, filename |-> filename]

\* semi / scale_1sigma, and for the longitude / np.cos(DEJ2000), kept as
\* the values it is computed from; scale_1sigma is the containment radius
\* of `percent` per cent
PositionError(semi, percent, dec) ==
    [k |-> "error", semi |-> semi, percent |-> percent, over_cos |-> dec]

\* SourceCatalogObjectFermiBase._set_spatial_errors (lines 304-328)
set_spatial_errors_nan(d, model) ==
    LET pos68 == "Pos_err_68" \in DOMAIN d
        percent == IF pos68 THEN 68 ELSE 95
        semi_minor == IF pos68 THEN d["Pos_err_68"] ELSE d["Conf_95_SemiMinor"]
        semi_major == IF pos68 THEN d["Pos_err_68"] ELSE d["Conf_95_SemiMajor"]
        phi_0 == IF pos68 THEN Num(0) ELSE d["Conf_95_PosAng"]
    IN  IF model.tag # "TemplateSpatialModel"
        THEN [model EXCEPT
                 !.errs = [lon_0 |-> PositionError(semi_minor, percent, d["DEJ2000"]),
                           lat_0 |-> PositionError(semi_major, percent, None)],
                 !.phi_0 = phi_0]
        ELSE model

set_spatial_errors(d, model) ==
    LET pos68 == "Pos_err_68" \in DOMAIN d
        percent == IF pos68 THEN 68 ELSE 95
        semi_minor == IF pos68 THEN d["Pos_err_68"] ELSE d["Conf_95_SemiMinor"]
        semi_major == IF pos68 THEN d["Pos_err_68"] ELSE d["Conf_95_SemiMajor"]
        phi_0 == IF pos68 THEN Num(0) ELSE d["Conf_95_PosAng"]
        angle == IF np_isnan(phi_0) THEN Num(0) ELSE phi_0
    IN  IF model.tag # "TemplateSpatialModel"
        THEN [model EXCEPT
                 !.errs = [lon_0 |-> PositionError(semi_minor, percent, d["DEJ2000"]),
                           lat_0 |-> PositionError(semi_major, percent, None)],
                 !.phi_0 = angle]
        ELSE model

\* the directory of the 4FGL templates (lines 512-521)
TemplatePath4FGL_le(version) ==
    IF version <= 28 THEN "LAT_extended_sources_8years"
    ELSE IF version < 32 THEN "Extended_12years"
    ELSE "Extended_14years"

TemplatePath4FGL(version) ==
    IF version < 28 THEN "LAT_extended_sources_8years"
    ELSE IF version < 32 THEN "Extended_12years"
    ELSE "Extended_14years"

\* SourceCatalogObject4FGL.spatial_model: the extended branch (lines 500-531)
Extended4FGL(d, de) ==
    LET morph_type == strip(de["Model_Form"])
    IN  IF morph_type = <<"Disk">> THEN DiskSpatialModel(d, de)
        ELSE IF morph_type \in {<<"Map">>, <<"Ring">>,
                                <<"2D", " ", "Gaussian", " ", "x2">>}
        THEN TemplateSpatialModel(TemplatePath4FGL(de["version"]),
                                  strip(de["Spatial_Filename"]) \o <<".gz">>)
        ELSE IF morph_type = <<"2D", " ", "Gaussian">>
        THEN GaussianSpatialModel(d, de)
        ELSE ValueError

\* SourceCatalogObject3FGL.spatial_model: the extended branch (lines 898-919)
Extended3FGL(d, de) ==
    LET morph_type == strip(de["Model_Form"])
    IN  IF morph_type = <<"Disk">> THEN DiskSpatialModel(d, de)
        ELSE IF morph_type \in {<<"Map">>, <<"Ring">>,
                                <<"2D", " ", "Gaussian", " ", "x2">>}
        THEN TemplateSpatialModel("Extended_archive_v15",
                                  strip(de["Spatial_Filename"]))
        ELSE IF morph_type = <<"2D", " ", "Gaussian">>
        THEN GaussianSpatialModel(d, de)
        ELSE ValueError

\* SourceCatalogObject2FHL.spatial_model: the extended branch (lines 1067-1088)
Extended2FHL_plain(d, de) == Extended3FGL(d, de)

Extended2FHL(d, de) ==
    LET morph_type == strip(de["Model_Form"])
    IN  IF morph_type \in {<<"Disk">>, <<"Elliptical", " ", "Disk">>}
        THEN DiskSpatialModel(d, de)
        ELSE IF morph_type \in {<<"Map">>, <<"Ring">>,
                                <<"2D", " ", "Gaussian", " ", "x2">>}
        THEN TemplateSpatialModel("Extended_archive_v15",
                                  strip(de["Spatial_Filename"]))
        ELSE IF morph_type \in {<<"2D", " ", "Gaussian">>,
                                <<"Elliptical", " ", "2D", " ", "Gaussian">>}
        THEN GaussianSpatialModel(d, de)
        ELSE ValueError

\* SourceCatalogObject3FHL.spatial_model: the extended branch (lines 1332-1353)
Extended3FHL(d, de) ==
    LET morph_type == strip(de["Spatial_Function"])
    IN  IF morph_type = <<"RadialDisk">> THEN DiskSpatialModel(d, de)
        ELSE IF morph_type \in {<<"SpatialMap">>}
        THEN TemplateSpatialModel("Extended_archive_v18",
                                  strip(de["Spatial_Filename"]))
        ELSE IF morph_type = <<"RadialGauss">>
        THEN GaussianSpatialModel(d, de)
        ELSE ValueError

\* the rows spatial_model reads besides self.data: self.data_extended is
\* read in the else branch of `if self.is_pointlike` only
ExtendedRead(pointlike) == IF pointlike THEN {} ELSE {"data_extended"}

\* self.data_extended is None for a source without a row in the table of
\* extended sources, and None["Model_Form"] raises TypeError

\* SourceCatalogObject4FGL.spatial_model (lines 491-533)
SpatialModel4FGL(d, de) ==
    LET model == IF is_pointlike_base(d)
                 THEN PointSpatialModel(d["RAJ2000"], d["DEJ2000"])
                 ELSE IF de = None THEN TypeError
                 ELSE Extended4FGL(d, de)
    IN  IF model.k = "raise" THEN model ELSE set_spatial_errors(d, model)

\* SourceCatalogObject3FGL.spatial_model (lines 889-921)
SpatialModel3FGL(d, de) ==
    LET model == IF is_pointlike_base(d)
                 THEN PointSpatialModel(d["RAJ2000"], d["DEJ2000"])
                 ELSE IF de = None THEN TypeError
                 ELSE Extended3FGL(d, de)
    IN  IF model.k = "raise" THEN model ELSE set_spatial_errors(d, model)

\* SourceCatalogObject2FHL.spatial_model (lines 1058-1091): a template is
\* returned at once, before _set_spatial_errors
SpatialModel2FHL(d, de) ==
    LET model == IF is_pointlike_2FHL(d)
                 THEN PointSpatialModel(d["RAJ2000"], d["DEJ2000"])
                 ELSE IF de = None THEN TypeError
                 ELSE Extended2FHL(d, de)
    IN  IF model.k = "raise" THEN model
        ELSE IF model.tag = "TemplateSpatialModel" THEN model
        ELSE set_spatial_errors(d, model)

\* SourceCatalogObject3FHL.spatial_model (lines 1323-1355)
SpatialModel3FHL(d, de) ==
    LET model == IF is_pointlike_base(d)
                 THEN PointSpatialModel(d["RAJ2000"], d["DEJ2000"])
                 ELSE IF de = None THEN TypeError
                 ELSE Extended3FHL(d, de)
    IN  IF model.k = "raise" THEN model ELSE set_spatial_errors(d, model)

(***************************************************************************)
(* The source objects for the spatial models.                              *)
(***************************************************************************)
\* Extended_Source_Name: empty, the "--" of a masked string, a name
ExtendedNames == UNION {Padded(t) : t \in {<<>>, <<"--">>, <<"-">>, <<"W44">>}}

\* Source_Name of 2FHL, character by character; it is the key the catalog
\* indexes its rows by and is never empty
SourceNames2FHL ==
    UNION {Padded(t) : t \in {<<"J", "1">>, <<"J", "1", "e">>,
                              <<"J", "e", "1">>, <<"J", "1", "E">>}}

MorphTexts ==
    {<<"Disk">>, <<"Map">>, <<"Ring">>, <<"2D", " ", "Gaussian", " ", "x2">>,
     <<"2D", " ", "Gaussian">>, <<"Elliptical", " ", "Disk">>,
     <<"Elliptical", " ", "2D", " ", "Gaussian">>,
     <<"RadialDisk">>, <<"SpatialMap">>, <<"RadialGauss">>,
     <<"disk">>, <<>>}

MorphTypes == UNION {Padded(t) : t \in MorphTexts}

ColumnsPosition == <<"RAJ2000", "DEJ2000">>

ColumnsConf95 == <<"Conf_95_SemiMinor", "Conf_95_SemiMajor", "Conf_95_PosAng">>

ColumnsExtended == <<"Model_SemiMajor", "Model_SemiMinor", "Model_PosAng">>

\* rows of 3FGL, 4FGL and 3FHL: the 95% ellipse, its angle possibly NaN
PositionRowsConf95 ==
    {Updated(NumericRow(ColumnsPosition \o ColumnsConf95, 0),
             [Extended_Source_Name |-> n, Conf_95_PosAng |-> a]) :
        n \in ExtendedNames, a \in {NaN, Num(1)}}

\* rows of 2FHL: Pos_err_68
PositionRows2FHL ==
    {Updated(NumericRow(ColumnsPosition \o <<"Pos_err_68">>, 0),
             [Source_Name |-> n]) : n \in SourceNames2FHL}

\* the VERSION of the 4FGL file, as SourceCatalog4FGL.__init__ writes it
\* into the table of extended sources
Versions4FGL == {27, 28, 31, 32}

ExtendedRows ==
    {Updated(NumericRow(ColumnsExtended, 0),
             [Model_Form |-> m, Spatial_Filename |-> <<"W44.fits", " ">>]) :
        m \in MorphTypes}

ExtendedRows4FGL ==
    {Updated(e, [version |-> v]) : e \in ExtendedRows, v \in Versions4FGL}

\* the ExtendedSources table of 3FHL has Model_Form and Spatial_Function
ExtendedRows3FHL ==
    {Updated(NumericRow(ColumnsExtended, 0),
             [Model_Form |-> <<"Disk">>, Spatial_Function |-> m,
              Spatial_Filename |-> <<"W44.fits", " ">>]) :
        m \in MorphTypes}

InitSpatial ==
    /\ cat \in {"4FGL", "3FGL", "2FHL", "3FHL"}
    /\ \/ /\ cat = "4FGL" /\ data \in PositionRowsConf95
          /\ data_extended \in {None} \cup ExtendedRows4FGL
       \/ /\ cat = "3FGL" /\ data \in PositionRowsConf95
          /\ data_extended \in {None} \cup ExtendedRows
       \/ /\ cat = "2FHL" /\ data \in PositionRows2FHL
          /\ data_extended \in {None} \cup ExtendedRows
       \/ /\ cat = "3FHL" /\ data \in PositionRowsConf95
          /\ data_extended \in {None} \cup ExtendedRows3FHL
    /\ data_spectral = None /\ aux = None
    /\ called = "none" /\ arg = "-" /\ ret = None /\ exc = "none"
    /\ consulted = {}
    /\ file = None /\ catalog = None

is_pointlike_FermiBase ==
    /\ cat \in {"4FGL", "3FGL", "3FHL"}
    /\ Returns("is_pointlike", "-", Bool(is_pointlike_base(data)), {})

is_pointlike_SourceCatalogObject2FHL ==
    /\ cat = "2FHL"
    /\ Returns("is_pointlike", "-", Bool(is_pointlike_2FHL(data)), {})

spatial_model_4FGL ==
    /\ cat = "4FGL"
    /\ Outcome("spatial_model", "-", SpatialModel4FGL(data, data_extended),
               ExtendedRead(is_pointlike_base(data)))

spatial_model_3FGL ==
    /\ cat = "3FGL"
    /\ Outcome("spatial_model", "-", SpatialModel3FGL(data, data_extended),
               ExtendedRead(is_pointlike_base(data)))

spatial_model_2FHL ==
    /\ cat = "2FHL"
    /\ Outcome("spatial_model", "-", SpatialModel2FHL(data, data_extended),
               ExtendedRead(is_pointlike_2FHL(data)))

spatial_model_3FHL ==
    /\ cat = "3FHL"
    /\ Outcome("spatial_model", "-", SpatialModel3FHL(data, data_extended),
               ExtendedRead(is_pointlike_base(data)))

NextSpatial ==
    \/ is_pointlike_FermiBase
    \/ is_pointlike_SourceCatalogObject2FHL
    \/ spatial_model_4FGL
    \/ spatial_model_3FGL
    \/ spatial_model_2FHL
    \/ spatial_model_3FHL

SpecSpatial == InitSpatial /\ [][NextSpatial]_vars

(***************************************************************************)
(* Claims about the spatial models.                                        *)
(***************************************************************************)
SpatialCalled == called = "spatial_model"

\* the flag of a source, as catalogued: the extended name of 3FGL, 4FGL and
\* 3FHL, the last character of the source name of 2FHL
FlagPointlike ==
    IF cat = "2FHL"
    THEN LET s == strip(data["Source_Name"])
         IN  Len(s) = 0 \/ s[Len(s)] # "e"
    ELSE strip(data["Extended_Source_Name"]) \in {<<>>, <<"--">>}

\* C8: is_pointlike is true exactly when the stripped Extended_Source_Name
\* is empty or "--" (3FGL, 4FGL, 3FHL) or the stripped Source_Name does not
\* end in "e" (2FHL); and spatial_model of a point-like source returns a
\* PointSpatialModel at (RAJ2000, DEJ2000) in the icrs frame and does not
\* read the extended-source row.
C8_PointlikeSource ==
    /\ called = "is_pointlike" => ret = Bool(FlagPointlike)
    /\ (SpatialCalled /\ FlagPointlike) =>
          /\ exc = "none"
          /\ ret.k = "model"
          /\ ret.tag = "PointSpatialModel"
          /\ ret.pars = [lon_0 |-> data["RAJ2000"], lat_0 |-> data["DEJ2000"]]
          /\ ret.frame = "icrs"
          /\ "data_extended" \notin consulted

\* a source whose padded extended name strips to "--", with an extended row
\* at hand, got its point model
C8_Witness ==
    /\ SpatialCalled
    /\ cat # "2FHL"
    /\ data["Extended_Source_Name"] # <<"--">>
    /\ strip(data["Extended_Source_Name"]) = <<"--">>
    /\ data_extended # None
    /\ ret.k = "model"
    /\ ret.tag = "PointSpatialModel"
    /\ consulted = {}

\* the column of the extended-source row that holds the morphology
MorphColumn == IF cat = "3FHL" THEN "Spatial_Function" ELSE "Model_Form"

\* the families of morphology strings, per catalog
DiskForms ==
    IF cat = "3FHL" THEN {<<"RadialDisk">>}
    ELSE IF cat = "2FHL" THEN {<<"Disk">>, <<"Elliptical", " ", "Disk">>}
    ELSE {<<"Disk">>}

TemplateForms ==
    IF cat = "3FHL" THEN {<<"SpatialMap">>}
    ELSE {<<"Map">>, <<"Ring">>, <<"2D", " ", "Gaussian", " ", "x2">>}

GaussianForms ==
    IF cat = "3FHL" THEN {<<"RadialGauss">>}
    ELSE IF cat = "2FHL"
    THEN {<<"2D", " ", "Gaussian">>,
          <<"Elliptical", " ", "2D", " ", "Gaussian">>}
    ELSE {<<"2D", " ", "Gaussian">>}

ReturnsFamily(tag) == exc = "none" /\ ret.k = "model" /\ ret.tag = tag

\* C9: for a source that is not point-like and has its extended-source row,
\* the family of the model spatial_model returns is decided by the stripped
\* morphology string alone (Model_Form; Spatial_Function for 3FHL): the disk
\* strings give a DiskSpatialModel, the map strings a TemplateSpatialModel,
\* the Gaussian strings a GaussianSpatialModel, and every other string
\* raises ValueError with nothing returned.
C9_MorphologyDispatch ==
    (SpatialCalled /\ ~FlagPointlike /\ data_extended # None) =>
        LET morph_type == strip(data_extended[MorphColumn])
        IN  /\ "data_extended" \in consulted
            /\ IF morph_type \in DiskForms
               THEN ReturnsFamily("DiskSpatialModel")
               ELSE IF morph_type \in TemplateForms
               THEN ReturnsFamily("TemplateSpatialModel")
               ELSE IF morph_type \in GaussianForms
               THEN ReturnsFamily("GaussianSpatialModel")
               ELSE exc = "ValueError" /\ ret = None

\* an extended 2FHL source with the padded form "Elliptical Disk" got a disk
C9_Witness ==
    /\ SpatialCalled
    /\ cat = "2FHL"
    /\ ~FlagPointlike
    /\ data_extended # None
    /\ data_extended["Model_Form"] # <<"Elliptical", " ", "Disk">>
    /\ strip(data_extended["Model_Form"]) = <<"Elliptical", " ", "Disk">>
    /\ ReturnsFamily("DiskSpatialModel")

(***************************************************************************)
(* The pulsar catalogs 2PC and 3PC: spectral_model, sky_model, to_models.  *)
(***************************************************************************)
\* number of rows of a modelled pulsar catalog
MaxSources == 2

\* the truth value of `x < y` and of `x >= y` in an if: a comparison with
\* NaN is False and a comparison with the masked constant is masked, which
\* is false
TruthLess(x, y) == x.k = "num" /\ y.k = "num" /\ x.v < y.v

TruthLessEq(x, y) == x.k = "num" /\ y.k = "num" /\ x.v <= y.v

TruthGreaterEq(x, y) == x.k = "num" /\ y.k = "num" /\ x.v >= y.v

PowerLaw2PC(d) ==
    SpectralModel("PowerLawSpectralModel",
        [reference |-> d["PL_Scale"],
         amplitude |-> d["PL_Prefactor"],
         index |-> d["PL_Photon_Index"]],
        [amplitude |-> d["Unc_PL_Prefactor"],
         index |-> d["Unc_PL_Photon_Index"]])

PLEC2PC(d) ==
    SpectralModel("SuperExpCutoffPowerLaw3FGLSpectralModel",
        [index_1 |-> d["PLEC_Photon_Index"],
         index_2 |-> d["PLEC_Exponential_Index"],
         amplitude |-> d["PLEC_Prefactor"],
         reference |-> d["PLEC_Scale"],
         ecut |-> d["PLEC_Cutoff"]],
        [index_1 |-> d["Unc_PLEC_Photon_Index"],
         index_2 |-> d["Unc_PLEC_Exponential_Index"],
         amplitude |-> d["Unc_PLEC_Prefactor"],
         ecut |-> d["Unc_PLEC_Cutoff"]])

PLEC1_2PC(d) ==
    SpectralModel("SuperExpCutoffPowerLaw3FGLSpectralModel",
        [index_1 |-> d["PLEC1_Photon_Index"],
         index_2 |-> Num(1),
         amplitude |-> d["PLEC1_Prefactor"],
         reference |-> d["PLEC1_Scale"],
         ecut |-> d["PLEC1_Cutoff"]],
        [index_1 |-> d["Unc_PLEC1_Photon_Index"],
         amplitude |-> d["Unc_PLEC1_Prefactor"],
         ecut |-> d["Unc_PLEC1_Cutoff"]])

\* the if / elif / elif / else chain of spectral_model, `no_cutoff` being
\* the truth of its first test
Choice2PC(d, no_cutoff) ==
    IF no_cutoff THEN PowerLaw2PC(d)
    ELSE IF TruthGreaterEq(d["TS_bfree"], Num(9)) THEN PLEC2PC(d)
    ELSE IF TruthLess(d["TS_bfree"], Num(9)) THEN PLEC1_2PC(d)
    ELSE None

SpectralModel2PC_le(d) ==
    IF d = None THEN None
    ELSE Choice2PC(d, TruthLessEq(d["TS_Cutoff"], Num(9)))

\* SourceCatalogObject2PC.spectral_model (lines 1460-1514)
SpectralModel2PC(d) ==
    IF d = None THEN None
    ELSE Choice2PC(d, TruthLess(d["TS_Cutoff"], Num(9)))

Columns2PC ==
    <<"PL_Scale", "PL_Prefactor", "PL_Photon_Index",
      "Unc_PL_Prefactor", "Unc_PL_Photon_Index",
      "PLEC_Photon_Index", "PLEC_Exponential_Index", "PLEC_Prefactor",
      "PLEC_Scale", "PLEC_Cutoff",
      "Unc_PLEC_Photon_Index", "Unc_PLEC_Exponential_Index",
      "Unc_PLEC_Prefactor", "Unc_PLEC_Cutoff",
      "PLEC1_Photon_Index", "PLEC1_Prefactor", "PLEC1_Scale", "PLEC1_Cutoff",
      "Unc_PLEC1_Photon_Index", "Unc_PLEC1_Prefactor", "Unc_PLEC1_Cutoff">>

\* values of the test statistics TS_Cutoff and TS_bfree
TestStatistics == {Num(8), Num(9), Num(10), NaN, Masked}

SpectralRows2PC ==
    {Updated(NumericRow(Columns2PC, 0), [TS_Cutoff |-> c, TS_bfree |-> b]) :
        c \in TestStatistics, b \in TestStatistics}

\* the column a pulsar catalog names its sources by
SourceNameKey(c) == IF c = "2PC" THEN "PSR_Name" ELSE "PSRJ"

\* a string held where None may be held instead
Str(s) == [k |-> "str", s |-> s]

\* self.name: the stripped name column of the row
SourceName(c, d) == Str(strip(d[SourceNameKey(c)]))

\* self.position: the sky position (ra, dec) of the row
Position(d) == [ra |-> d["RAJ2000"], dec |-> d["DEJ2000"]]

\* SourceCatalogObjectFermiPCBase.spatial_model (lines 131-137)
SpatialModelPC(d) == PointSpatialModel(Position(d).ra, Position(d).dec)

SkyModel(spatial_model, spectral_model, name) ==
    [k |-> "model", tag |-> "SkyModel", spatial_model |-> spatial_model,
     spectral_model |-> spectral_model, name |-> name]

\* self.spectral_model() of a pulsar source, fit left at its default
SpectralModelPC(c, ds) ==
    IF c = "2PC" THEN SpectralModel2PC(ds) ELSE SpectralModel3PC(ds, "auto")

SkyModelPC_unnamed(c, d, ds, name) ==
    LET spectral_model == SpectralModelPC(c, ds)
    IN  IF spectral_model = None THEN None
        ELSE SkyModel(SpatialModelPC(d), spectral_model, name)

\* SourceCatalogObjectFermiPCBase.sky_model (lines 139-152)
SkyModelPC(c, d, ds, name) ==
    LET spectral_model == SpectralModelPC(c, ds)
    IN  IF spectral_model = None THEN None
        ELSE SkyModel(SpatialModelPC(d), spectral_model,
                      IF name = None THEN SourceName(c, d) ELSE name)

\* Models(): a list of sky models
Models(list) == [k |-> "Models", models |-> list]

\* `for m in self`: the source objects of the catalog, in row order
SourcesOf(c) == c.sources

RECURSIVE ToModelsLoop_all(_, _, _)
ToModelsLoop_all(c, sources, models) ==
    IF sources = <<>> THEN models
    ELSE LET m == Head(sources)
             sky_model == SkyModelPC(c, m.data, m.data_spectral, None)
         IN  ToModelsLoop_all(c, Tail(sources), Append(models, sky_model))

\* the loop of to_models (lines 2073-2077, 2121-2125)
RECURSIVE ToModelsLoop(_, _, _)
ToModelsLoop(c, sources, models) ==
    IF sources = <<>> THEN models
    ELSE LET m == Head(sources)
             sky_model == SkyModelPC(c, m.data, m.data_spectral, None)
         IN  ToModelsLoop(c, Tail(sources),
                          IF sky_model # None THEN Append(models, sky_model)
                          ELSE models)

\* SourceCatalog2PC.to_models, SourceCatalog3PC.to_models
ToModels(c, ctlg) == Models(ToModelsLoop(c, SourcesOf(ctlg), <<>>))

(***************************************************************************)
(* The pulsar source objects and catalogs.                                 *)
(***************************************************************************)
PulsarNames == Padded(<<"J0534+2200">>)

PulsarRows(c) ==
    {Updated(NumericRow(ColumnsPosition, seed),
             [x \in {SourceNameKey(c)} |-> n]) :
        seed \in Seeds, n \in PulsarNames}

PulsarSpectralRows(c) ==
    {None} \cup (IF c = "2PC" THEN SpectralRows2PC ELSE SpectralRows3PC)

Source(d, ds) == [data |-> d, data_spectral |-> ds]

\* the rows of a small pulsar catalog: without a spectral row, with one
\* that gives no model, and with rows that give different models
CatalogSpectralRows(c) ==
    {None} \cup
    (IF c = "2PC"
     THEN {r \in SpectralRows2PC :
              /\ r["TS_Cutoff"] \in {Num(8), Num(9)}
              /\ r["TS_bfree"] \in {Num(8), NaN}}
     ELSE {r \in SpectralRows3PC :
              /\ r["SpectrumType"] \in {<<"PLSuperExpCutoff4">>, <<"PowerLaw">>}
              /\ r["Pivot_Energy_b23"] = Num(2)
              /\ r["PLEC_IndexS_bfr"] # Masked})

CatalogSources(c) ==
    {Source(d, ds) :
        d \in {r \in PulsarRows(c) : r["RAJ2000"] = Num(2)
                                    /\ r[SourceNameKey(c)] = <<"J0534+2200">>},
        ds \in CatalogSpectralRows(c)}

PulsarCatalogs(c) ==
    {[sources |-> q] : q \in SeqsUpTo(CatalogSources(c), MaxSources)}

InitPulsar ==
    /\ cat \in {"2PC", "3PC"}
    /\ data \in PulsarRows(cat)
    /\ data_spectral \in PulsarSpectralRows(cat)
    /\ catalog \in PulsarCatalogs(cat)
    /\ data_extended = None /\ aux = None /\ file = None
    /\ called = "none" /\ arg = "-" /\ ret = None /\ exc = "none"
    /\ consulted = {}

spectral_model_2PC ==
    /\ cat = "2PC"
    /\ Outcome("spectral_model", "-", SpectralModel2PC(data_spectral),
               {"data_spectral"})

\* the name argument of sky_model
SkyModelNames == {None, Str(<<"crab">>), Str(<<>>)}

sky_model_PC ==
    /\ cat \in {"2PC", "3PC"}
    /\ \E name \in SkyModelNames :
          Returns("sky_model", name, SkyModelPC(cat, data, data_spectral, name),
                  {"data_spectral"})

to_models_2PC ==
    /\ cat = "2PC"
    /\ Returns("to_models", "-", ToModels(cat, catalog), {})

to_models_3PC ==
    /\ cat = "3PC"
    /\ Returns("to_models", "-", ToModels(cat, catalog), {})

NextPulsar ==
    \/ spectral_model_2PC
    \/ spectral_model_3PC
    \/ sky_model_PC
    \/ to_models_2PC
    \/ to_models_3PC

SpecPulsar == InitPulsar /\ [][NextPulsar]_vars

(***************************************************************************)
(* Properties of the pulsar catalogs (under SpecPulsar).                   *)
(***************************************************************************)
IsNumber(x) == x.k = "num"

ReturnedSpectral(tag) == exc = "none" /\ ret.k = "model" /\ ret.tag = tag

\* C11: SourceCatalogObject2PC.spectral_model returns None without a
\* spectral row; a PowerLawSpectralModel of the PL_* columns when
\* TS_Cutoff < 9; the super-exponential cutoff model of the PLEC_* columns,
\* index_2 = PLEC_Exponential_Index, when TS_Cutoff >= 9 and TS_bfree >= 9;
\* the same family of the PLEC1_* columns, index_2 = 1 without an error,
\* when TS_Cutoff >= 9 and TS_bfree < 9; and a row whose TS_Cutoff and
\* TS_bfree are numbers always gets a model.
C11_SpectralModel2PC ==
    SpectralCalled("2PC") =>
        IF data_spectral = None THEN ret = None /\ exc = "none"
        ELSE LET d == data_spectral
                 ts_cutoff == d["TS_Cutoff"]
                 ts_bfree == d["TS_bfree"]
             IN  /\ (IsNumber(ts_cutoff) /\ ts_cutoff.v < 9) =>
                       /\ ReturnedSpectral("PowerLawSpectralModel")
                       /\ ret.pars = [reference |-> d["PL_Scale"],
                                      amplitude |-> d["PL_Prefactor"],
                                      index |-> d["PL_Photon_Index"]]
                       /\ ret.errs = [amplitude |-> d["Unc_PL_Prefactor"],
                                      index |-> d["Unc_PL_Photon_Index"]]
                 /\ (/\ IsNumber(ts_cutoff) /\ ts_cutoff.v >= 9
                     /\ IsNumber(ts_bfree) /\ ts_bfree.v >= 9) =>
                       /\ ReturnedSpectral("SuperExpCutoffPowerLaw3FGLSpectralModel")
                       /\ ret.pars = [index_1 |-> d["PLEC_Photon_Index"],
                                      index_2 |-> d["PLEC_Exponential_Index"],
                                      amplitude |-> d["PLEC_Prefactor"],
                                      reference |-> d["PLEC_Scale"],
                                      ecut |-> d["PLEC_Cutoff"]]
                       /\ ret.errs = [index_1 |-> d["Unc_PLEC_Photon_Index"],
                                      index_2 |-> d["Unc_PLEC_Exponential_Index"],
                                      amplitude |-> d["Unc_PLEC_Prefactor"],
                                      ecut |-> d["Unc_PLEC_Cutoff"]]
                 /\ (/\ IsNumber(ts_cutoff) /\ ts_cutoff.v >= 9
                     /\ IsNumber(ts_bfree) /\ ts_bfree.v < 9) =>
                       /\ ReturnedSpectral("SuperExpCutoffPowerLaw3FGLSpectralModel")
                       /\ ret.pars = [index_1 |-> d["PLEC1_Photon_Index"],
                                      index_2 |-> Num(1),
                                      amplitude |-> d["PLEC1_Prefactor"],
                                      reference |-> d["PLEC1_Scale"],
                                      ecut |-> d["PLEC1_Cutoff"]]
                       /\ ret.errs = [index_1 |-> d["Unc_PLEC1_Photon_Index"],
                                      amplitude |-> d["Unc_PLEC1_Prefactor"],
                                      ecut |-> d["Unc_PLEC1_Cutoff"]]
                       /\ "index_2" \notin DOMAIN ret.errs
                 /\ (IsNumber(ts_cutoff) /\ IsNumber(ts_bfree)) => ret # None

\* a row with TS_Cutoff = 9 and TS_bfree = 8 got the PLEC1 model
C11_Witness ==
    /\ SpectralCalled("2PC")
    /\ data_spectral # None
    /\ data_spectral["TS_Cutoff"] = Num(9)
    /\ data_spectral["TS_bfree"] = Num(8)
    /\ ReturnedSpectral("SuperExpCutoffPowerLaw3FGLSpectralModel")
    /\ ret.pars.index_2 = Num(1)

(***************************************************************************)
(* sky_model of every source class.                                        *)
(***************************************************************************)
\* SourceCatalogObject2FHL.energy_range: 0.05 TeV and 2 TeV, in GeV
energy_range_2FHL == <<Num(50), Num(2000)>>

\* SourceCatalogObject2FHL.spectral_model (lines 1093-1112)
SpectralModel2FHL_typed(d) ==
    IF "SpectrumType" \in DOMAIN d /\ strip(d["SpectrumType"]) # <<"PowerLaw">>
    THEN ValueError
    ELSE SpectralModel("PowerLaw2SpectralModel",
             [amplitude |-> d["Flux50"],
              emin |-> energy_range_2FHL[1],
              emax |-> energy_range_2FHL[2],
              index |-> d["Spectral_Index"]],
             [amplitude |-> d["Unc_Flux50"],
              index |-> d["Unc_Spectral_Index"]])

SpectralModel2FHL(d) ==
    SpectralModel("PowerLaw2SpectralModel",
        [amplitude |-> d["Flux50"],
         emin |-> energy_range_2FHL[1],
         emax |-> energy_range_2FHL[2],
         index |-> d["Spectral_Index"]],
        [amplitude |-> d["Unc_Flux50"],
         index |-> d["Unc_Spectral_Index"]])

\* self.spatial_model() and self.spectral_model() of the class of a source
SpatialModelOf(c, d, de) ==
    CASE c = "4FGL" -> SpatialModel4FGL(d, de)
      [] c = "3FGL" -> SpatialModel3FGL(d, de)
      [] c = "2FHL" -> SpatialModel2FHL(d, de)
      [] c = "3FHL" -> SpatialModel3FHL(d, de)

SpectralModelOf(c, d) ==
    CASE c = "4FGL" -> SpectralModel4FGL(d)
      [] c = "3FGL" -> SpectralModel3FGL(d)
      [] c = "2FHL" -> SpectralModel2FHL(d)
      [] c = "3FHL" -> SpectralModel3FHL(d)

\* self.name of a source of 3FGL, 4FGL, 2FHL, 3FHL
SourceNameFermi(d) == Str(strip(d["Source_Name"]))

\* SourceCatalogObjectFermiBase.sky_model (lines 330-339): the arguments of
\* SkyModel are evaluated in order, and what one raises goes to the caller
SkyModelFermi(c, d, de, name) ==
    LET spatial_model == SpatialModelOf(c, d, de)
        spectral_model == SpectralModelOf(c, d)
    IN  IF spatial_model.k = "raise" THEN spatial_model
        ELSE IF spectral_model.k = "raise" THEN spectral_model
        ELSE SkyModel(spatial_model, spectral_model,
                      IF name = None THEN SourceNameFermi(d) ELSE name)

Columns2FHL ==
    <<"Flux50", "Unc_Flux50", "Spectral_Index", "Unc_Spectral_Index">>

\* rows with the columns of both models
SkySpectralRows(c) ==
    CASE c = "4FGL" -> {WithType(NumericRow(Columns4FGL, 0), t) : t \in SpectrumTypes}
      [] c = "3FGL" -> {WithType(NumericRow(Columns3FGL, 0), t) : t \in SpectrumTypes}
      [] c = "3FHL" -> {WithType(NumericRow(Columns3FHL, 0), t) : t \in SpectrumTypes}
      [] c = "2FHL" -> {NumericRow(Columns2FHL, 0)}

SkyPositionRows(c) ==
    IF c = "2FHL"
    THEN {Updated(r, [Extended_Source_Name |-> <<>>]) : r \in PositionRows2FHL}
    ELSE {Updated(r, [Source_Name |-> <<"J", "1">>]) :
             r \in {q \in PositionRowsConf95 :
                       /\ q["Conf_95_PosAng"] = NaN
                       /\ strip(q["Extended_Source_Name"])
                            = q["Extended_Source_Name"]}}

SkyRows(c) ==
    {Updated(p, q) : p \in SkyPositionRows(c), q \in SkySpectralRows(c)}

SkyExtendedRows(c) ==
    {None} \cup
    {r \in (CASE c = "4FGL" -> ExtendedRows4FGL
              [] c = "3FHL" -> ExtendedRows3FHL
              [] OTHER -> ExtendedRows) :
        /\ c = "4FGL" => r["version"] = 28
        /\ r[IF c = "3FHL" THEN "Spatial_Function" ELSE "Model_Form"]
             \in MorphTexts}

InitSkyFermi ==
    /\ cat \in {"4FGL", "3FGL", "2FHL", "3FHL"}
    /\ data \in SkyRows(cat)
    /\ data_extended \in SkyExtendedRows(cat)
    /\ data_spectral = None /\ aux = None /\ file = None /\ catalog = None
    /\ called = "none" /\ arg = "-" /\ ret = None /\ exc = "none"
    /\ consulted = {}

InitSkyModel == InitPulsar \/ InitSkyFermi

sky_model_FermiBase ==
    /\ cat \in {"4FGL", "3FGL", "2FHL", "3FHL"}
    /\ \E name \in SkyModelNames :
          Outcome("sky_model", name,
                  SkyModelFermi(cat, data, data_extended, name), {})

NextSkyModel ==
    \/ sky_model_PC
    \/ sky_model_FermiBase

SpecSkyModel == InitSkyModel /\ [][NextSkyModel]_vars

\* C12: for 2PC and 3PC, sky_model returns None exactly when
\* spectral_model returns None, and otherwise a SkyModel of the point model
\* at the position of the source and that spectral model, named by the name
\* argument or, when that is None, by the name of the source; for 3FGL,
\* 4FGL, 2FHL and 3FHL sky_model never returns None.
C12_SkyModel ==
    called = "sky_model" =>
        IF cat \in {"2PC", "3PC"}
        THEN LET spectral_model == SpectralModelPC(cat, data_spectral)
             IN  /\ exc = "none"
                 /\ ret = None <=> spectral_model = None
                 /\ ret # None =>
                       /\ ret.tag = "SkyModel"
                       /\ ret.spectral_model = spectral_model
                       /\ ret.spatial_model.tag = "PointSpatialModel"
                       /\ ret.spatial_model.frame = "icrs"
                       /\ ret.spatial_model.pars
                            = [lon_0 |-> Position(data).ra,
                               lat_0 |-> Position(data).dec]
                       /\ ret.name = IF arg = None THEN SourceName(cat, data)
                                     ELSE arg
        ELSE exc = "none" => (ret # None /\ ret.tag = "SkyModel")

\* a 2PC source with a padded name got a sky model under its own name
C12_Witness ==
    /\ called = "sky_model"
    /\ cat = "2PC"
    /\ arg = None
    /\ data["PSR_Name"] # strip(data["PSR_Name"])
    /\ ret # None
    /\ ret.name = Str(<<"J0534+2200">>)

\* what sky_model() gives for each row of the catalog, in row order
SkyModelsOfRows ==
    [i \in DOMAIN catalog.sources |->
        SkyModelPC(cat, catalog.sources[i].data,
                   catalog.sources[i].data_spectral, None)]

IsSkyModel(m) == m # None

\* C13: to_models of 2PC and 3PC returns the Models holding, in row order,
\* the sky model of every source whose sky_model() is not None and nothing
\* else; None is never in the result and no source makes to_models raise.
C13_ToModels ==
    called = "to_models" =>
        /\ exc = "none"
        /\ ret.k = "Models"
        /\ ret.models = SelectSeq(SkyModelsOfRows, IsSkyModel)
        /\ \A i \in DOMAIN ret.models : ret.models[i] # None

\* a catalog whose first source has no sky model and whose last one has
C13_Witness ==
    /\ called = "to_models"
    /\ Len(catalog.sources) >= 2
    /\ SkyModelsOfRows[1] = None
    /\ SkyModelsOfRows[Len(catalog.sources)] # None
    /\ ret.k = "Models"
    /\ Len(ret.models) = Len(catalog.sources) - 1

(***************************************************************************)
(* info and __str__.  The argument of info is the sequence of its pieces,  *)
(* a comma being a piece of its own; the report is the sequence of its     *)
(* lines, of which the titles and the lines that depend on a branch are    *)
(* kept.                                                                   *)
(***************************************************************************)
\* number of options joined into a modelled argument of info
MaxOptions == 2

\* str.split(","): the fields between the commas, "" for an empty string
\* included
RECURSIVE split(_)
split(s) ==
    IF \A i \in DOMAIN s : s[i] # "," THEN <<s>>
    ELSE LET i == CHOOSE j \in DOMAIN s :
                     s[j] = "," /\ \A h \in 1..(j - 1) : s[h] # ","
         IN  <<SubSeq(s, 1, i - 1)>> \o split(SubSeq(s, i + 1, Len(s)))

\* `"word" in ops`
InOps(word, ops) == \E i \in DOMAIN ops : ops[i] = <<word>>

Text(lines) == [k |-> "text", lines |-> lines]

\* ss += section, for each section in turn; a section that raises ends it
RECURSIVE Concatenated(_)
Concatenated(sections) ==
    IF sections = <<>> THEN Text(<<>>)
    ELSE IF Head(sections).k = "raise" THEN Head(sections)
    ELSE LET rest == Concatenated(Tail(sections))
         IN  IF rest.k = "raise" THEN rest
             ELSE Text(Head(sections).lines \o rest.lines)

\* `if "word" in ops: ss += ...` for the sections of one option
When(word, ops, sections) == IF InOps(word, ops) THEN sections ELSE <<>>

info_basic == Text(<<"*** Basic info ***">>)

\* _info_more: 3PC keeps the "" of the base class
info_more(c) ==
    IF c = "3PC" THEN Text(<<>>) ELSE Text(<<"*** Other info ***">>)

info_pulsar == Text(<<"*** Pulsar info ***">>)

info_position == Text(<<"*** Position info ***">>)

\* _info_morphology (lines 266-280) reads self.data_extended
info_morphology(de) ==
    IF de = None THEN TypeError
    ELSE Text(<<"*** Extended source information ***">>)

\* SourceCatalogObject4FGL._info_spectral_fit (lines 377-457)
info_spectral_fit_4FGL(d) ==
    LET spec_type == strip(d["SpectrumType"])
    IN  IF spec_type = <<"PowerLaw">> THEN Text(<<"*** Spectral info ***">>)
        ELSE IF spec_type = <<"LogParabola">>
        THEN Text(<<"*** Spectral info ***", "beta">>)
        ELSE IF spec_type = <<"PLSuperExpCutoff">>
        THEN Text(<<"*** Spectral info ***", "Exponential factor",
                    "Super-exponential cutoff index">>)
        ELSE ValueError

\* SourceCatalogObject3FGL._info_spectral_fit (lines 724-789)
info_spectral_fit_3FGL(d) ==
    LET spec_type == strip(d["SpectrumType"])
    IN  IF spec_type = <<"PowerLaw">> THEN Text(<<"*** Spectral info ***">>)
        ELSE IF spec_type = <<"LogParabola">>
        THEN Text(<<"*** Spectral info ***", "beta">>)
        ELSE IF spec_type \in {<<"PLExpCutoff">>, <<"PlSuperExpCutoff">>}
        THEN Text(<<"*** Spectral info ***", "Cutoff energy">>)
        ELSE IF spec_type = <<"PLSuperExpCutoff">>
        THEN Text(<<"*** Spectral info ***", "Super-exponential cutoff index">>)
        ELSE ValueError

\* SourceCatalogObject3FHL._info_spectral_fit (lines 1168-1224)
info_spectral_fit_3FHL(d) ==
    LET spec_type == strip(d["SpectrumType"])
    IN  IF spec_type = <<"PowerLaw">> THEN Text(<<"*** Spectral fit info ***">>)
        ELSE IF spec_type = <<"LogParabola">>
        THEN Text(<<"*** Spectral fit info ***",
                    "LogParabolaSpectralModel spectral index",
                    "LogParabolaSpectralModel beta">>)
        ELSE ValueError

\* _info_spectral_fit of 2PC and 3PC (lines 1382-1451, 1603-1673)
info_spectral_fit_PC(ds) ==
    IF ds = None
    THEN Text(<<"*** Spectral info ***", "No spectral info available.">>)
    ELSE Text(<<"*** Spectral info ***">>)

info_spectral_fit(c, d, ds) ==
    CASE c = "4FGL" -> info_spectral_fit_4FGL(d)
      [] c = "3FGL" -> info_spectral_fit_3FGL(d)
      [] c = "3FHL" -> info_spectral_fit_3FHL(d)
      [] c = "2FHL" -> Text(<<"*** Spectral fit info ***">>)
      [] OTHER -> info_spectral_fit_PC(ds)

info_spectral_points == Text(<<"*** Spectral points ***">>)

\* _info_lightcurve: 2FHL and 3FHL keep the "\n" of the base class
info_lightcurve(c) ==
    IF c \in {"4FGL", "3FGL"} THEN Text(<<"*** Lightcurve info ***">>)
    ELSE Text(<<"\n">>)

info_phasogram == Text(<<"*** Phasogram info ***">>)

AllFermi ==
    <<"basic", ",", "more", ",", "position", ",", "spectral", ",", "lightcurve">>

AllPC ==
    <<"basic", ",", "more", ",", "position", ",", "pulsar", ",", "spectral",
      ",", "lightcurve">>

InfoFermi_morphology(c, d, de, pointlike, info) ==
    LET ops == split(IF info = <<"all">> THEN AllFermi ELSE info)
    IN  Concatenated(
            When("basic", ops, <<info_basic>>)
            \o When("more", ops, <<info_more(c)>>)
            \o When("position", ops, <<info_position, info_morphology(de)>>)
            \o When("spectral", ops,
                    <<info_spectral_fit(c, d, None), info_spectral_points>>)
            \o When("lightcurve", ops, <<info_lightcurve(c)>>))

\* SourceCatalogObjectFermiBase.info (lines 186-212)
InfoFermi(c, d, de, pointlike, info) ==
    LET ops == split(IF info = <<"all">> THEN AllFermi ELSE info)
    IN  Concatenated(
            When("basic", ops, <<info_basic>>)
            \o When("more", ops, <<info_more(c)>>)
            \o When("position", ops,
                    <<info_position>>
                    \o (IF ~pointlike THEN <<info_morphology(de)>> ELSE <<>>))
            \o When("spectral", ops,
                    <<info_spectral_fit(c, d, None), info_spectral_points>>)
            \o When("lightcurve", ops, <<info_lightcurve(c)>>))

\* SourceCatalogObjectFermiPCBase.info (lines 71-90)
InfoPC(c, ds, info) ==
    LET ops == split(IF info = <<"all">> THEN AllPC ELSE info)
    IN  Concatenated(
            When("basic", ops, <<info_basic>>)
            \o When("more", ops, <<info_more(c)>>)
            \o When("pulsar", ops, <<info_pulsar>>)
            \o When("position", ops, <<info_position>>)
            \o When("spectral", ops,
                    <<info_spectral_fit(c, None, ds), info_spectral_points>>)
            \o When("lightcurve", ops, <<info_phasogram>>))

(***************************************************************************)
(* The source objects and the arguments for info.                          *)
(***************************************************************************)
InfoSpectrumTypes == SpectrumTexts \cup Padded(<<"PowerLaw">>)

InfoRowsFermi(c) ==
    IF c = "2FHL"
    THEN {Updated(NumericRow(Columns2FHL, 0), [Source_Name |-> n]) :
             n \in {<<"J", "1">>, <<"J", "1", "e">>}}
    ELSE {Updated(WithType(NumericRow(
                      CASE c = "4FGL" -> Columns4FGL
                        [] c = "3FGL" -> Columns3FGL
                        [] c = "3FHL" -> Columns3FHL, 0), t),
                  [Extended_Source_Name |-> n]) :
             t \in InfoSpectrumTypes, n \in {<<"--", " ">>, <<"W44">>}}

InfoExtendedRows ==
    {None, Updated(NumericRow(ColumnsExtended, 0),
                   [Model_Form |-> <<"Disk">>,
                    Spatial_Filename |-> <<"W44.fits">>])}

\* the fields of the argument of info: the options, and near misses
InfoFields ==
    {<<"basic">>, <<"more">>, <<"position">>, <<"pulsar">>, <<"spectral">>,
     <<"lightcurve">>, <<"all">>, <<" ", "basic">>, <<>>}

RECURSIVE Joined(_)
Joined(fields) ==
    IF Len(fields) = 1 THEN fields[1]
    ELSE fields[1] \o <<",">> \o Joined(Tail(fields))

InfoArgs ==
    {Joined(q) : q \in SeqsUpTo(InfoFields, MaxOptions)} \cup {AllFermi, AllPC}

InitInfo ==
    /\ cat \in Catalogs
    /\ \/ /\ cat \in {"4FGL", "3FGL", "2FHL", "3FHL"}
          /\ data \in InfoRowsFermi(cat)
          /\ data_extended \in InfoExtendedRows
          /\ data_spectral = None
       \/ /\ cat \in {"2PC", "3PC"}
          /\ data \in {r \in PulsarRows(cat) : r["RAJ2000"] = Num(2)
                          /\ r[SourceNameKey(cat)] = <<"J0534+2200">>}
          /\ data_extended = None
          /\ data_spectral \in CatalogSpectralRows(cat)
    /\ aux = None /\ file = None /\ catalog = None
    /\ called = "none" /\ arg = "-" /\ ret = None /\ exc = "none"
    /\ consulted = {}

\* self.is_pointlike of a source of 3FGL, 4FGL, 2FHL, 3FHL
IsPointlikeOf(c, d) ==
    IF c = "2FHL" THEN is_pointlike_2FHL(d) ELSE is_pointlike_base(d)

\* The report of a source object is asked for once: info reads the rows and
\* changes nothing, so a second call would find what the first one found.
info_FermiBase ==
    /\ called = "none"
    /\ cat \in {"4FGL", "3FGL", "2FHL", "3FHL"}
    /\ \E info \in InfoArgs :
          Outcome("info", Str(info),
                  InfoFermi(cat, data, data_extended,
                            IsPointlikeOf(cat, data), info), {})

info_FermiPCBase ==
    /\ called = "none"
    /\ cat \in {"2PC", "3PC"}
    /\ \E info \in InfoArgs :
          Outcome("info", Str(info), InfoPC(cat, data_spectral, info), {})

\* __str__ of both base classes: self.info()
str_FermiBase ==
    /\ called = "none"
    /\ cat \in {"4FGL", "3FGL", "2FHL", "3FHL"}
    /\ Outcome("__str__", None,
               InfoFermi(cat, data, data_extended,
                         IsPointlikeOf(cat, data), <<"all">>), {})

str_FermiPCBase ==
    /\ called = "none"
    /\ cat \in {"2PC", "3PC"}
    /\ Outcome("__str__", None, InfoPC(cat, data_spectral, <<"all">>), {})

NextInfo ==
    \/ info_FermiBase
    \/ info_FermiPCBase
    \/ str_FermiBase
    \/ str_FermiPCBase

SpecInfo == InitInfo /\ [][NextInfo]_vars

(***************************************************************************)
(* Properties of info (under SpecInfo).                                    *)
(***************************************************************************)
\* the list of options a call asked for: that of info, or "all" for str()
AskedList ==
    LET info == IF called = "__str__" THEN <<"all">> ELSE arg.s
    IN  IF info # <<"all">> THEN info
        ELSE IF cat \in {"2PC", "3PC"}
        THEN <<"basic", ",", "more", ",", "position", ",", "pulsar", ",",
               "spectral", ",", "lightcurve">>
        ELSE <<"basic", ",", "more", ",", "position", ",", "spectral", ",",
               "lightcurve">>

\* option o stands in the list between two commas or ends of the list
Requested(o) ==
    \E i \in DOMAIN AskedList :
        /\ AskedList[i] = o
        /\ i = 1 \/ AskedList[i - 1] = ","
        /\ i = Len(AskedList) \/ AskedList[i + 1] = ","

\* the titles of the sections of option o in the report of a source
SectionTitles(o) ==
    CASE o = "basic" -> {"*** Basic info ***"}
      [] o = "more" -> IF cat = "3PC" THEN {} ELSE {"*** Other info ***"}
      [] o = "position" -> {"*** Position info ***"}
      [] o = "pulsar" ->
           IF cat \in {"2PC", "3PC"} THEN {"*** Pulsar info ***"} ELSE {}
      [] o = "spectral" ->
           {"*** Spectral points ***",
            IF cat \in {"2FHL", "3FHL"} THEN "*** Spectral fit info ***"
            ELSE "*** Spectral info ***"}
      [] o = "lightcurve" ->
           IF cat \in {"3FGL", "4FGL"} THEN {"*** Lightcurve info ***"}
           ELSE IF cat \in {"2FHL", "3FHL"} THEN {"\n"}
           ELSE {"*** Phasogram info ***"}

Options == {"basic", "more", "position", "pulsar", "spectral", "lightcurve"}

ReportCalled == called \in {"info", "__str__"}

Emitted(title) == \E i \in DOMAIN ret.lines : ret.lines[i] = title

\* C14: the report info returns holds the sections of exactly the options
\* that stand in the comma-separated list, each once; "all", and str(), ask
\* for the full list of the class; the extended-source section of 3FGL,
\* 4FGL, 2FHL, 3FHL is there exactly when "position" is asked for and the
\* source is not point-like; and only a section that was asked for can make
\* the call raise.
C14_InfoSections ==
    ReportCalled =>
        /\ exc = "none" =>
              /\ ret.k = "text"
              /\ \A o \in Options : \A t \in SectionTitles(o) :
                    Emitted(t) <=> Requested(o)
              /\ \A i, j \in DOMAIN ret.lines :
                    ret.lines[i] = ret.lines[j] => i = j
              /\ Emitted("*** Extended source information ***")
                    <=> /\ cat \notin {"2PC", "3PC"}
                        /\ Requested("position")
                        /\ ~FlagPointlike
        /\ exc = "ValueError" => Requested("spectral")
        /\ exc = "TypeError" => Requested("position")
        /\ exc \in {"none", "ValueError", "TypeError"}

\* " basic,position" asked of an extended 4FGL source: the position and the
\* extended-source sections, and no basic section
C14_Witness ==
    /\ called = "info"
    /\ cat = "4FGL"
    /\ arg = Str(<<" ", "basic", ",", "position">>)
    /\ ~FlagPointlike
    /\ exc = "none"
    /\ ret.k = "text"
    /\ ret.lines = <<"*** Position info ***",
                     "*** Extended source information ***">>

(***************************************************************************)
(* lightcurve of 3FGL and 4FGL.  A history column is the sequence of its   *)
(* values, one per time bin; Unc_Flux_History holds a pair (lower, upper)  *)
(* per bin.                                                                *)
(***************************************************************************)
KeyError == [k |-> "raise", error |-> "KeyError"]

\* x ** 2
Square(x) == Mul(x, x)

\* compute_flux_points_ul applied to every bin
UlOfBins(flux, flux_errp) ==
    [i \in DOMAIN flux |-> compute_flux_points_ul(flux[i], flux_errp[i])]

\* FluxPoints.from_maps(maps, sed_type="flux", reference_model, meta)
FluxPoints(time_axis, maps, reference_model) ==
    [k |-> "FluxPoints", sed_type |-> "flux", time_axis |-> time_axis,
     maps |-> maps, reference_model |-> reference_model,
     meta |-> "flux_points_meta"]

\* the maps of the 4FGL light curve (lines 673-686)
Maps4FGL(d, tag, tag_sqrt_ts) ==
    LET flux == d[tag]
        unc == d["Unc_" \o tag]
        flux_errp == [i \in DOMAIN unc |-> unc[i][2]]
    IN  [flux |-> flux,
         flux_errp |-> flux_errp,
         flux_errn |-> [i \in DOMAIN unc |-> Neg(unc[i][1])],
         flux_ul |-> UlOfBins(flux, flux_errp),
         ts |-> [i \in DOMAIN flux |-> Square(d[tag_sqrt_ts][i])]]

\* the part of lightcurve after the choice of the interval (lines 670-693):
\* a column that is read and is not in the row raises KeyError, and what
\* self.sky_model() raises goes to the caller
LightcurveOf4FGL(d, de, tag, axis, tag_sqrt_ts) ==
    LET reference_model == SkyModelFermi("4FGL", d, de, None)
    IN  IF ("Unc_" \o tag) \notin DOMAIN d \/ tag_sqrt_ts \notin DOMAIN d
        THEN KeyError
        ELSE IF reference_model.k = "raise" THEN reference_model
        ELSE FluxPoints(d[axis], Maps4FGL(d, tag, tag_sqrt_ts), reference_model)

Lightcurve4FGL_swapped(d, de, interval) ==
    IF interval = "1-year"
    THEN IF "Flux_History" \notin DOMAIN d \/ "time_axis" \notin DOMAIN d
         THEN ValueError
         ELSE LightcurveOf4FGL(d, de, "Flux_History", "time_axis",
                               "Sqrt_TS_History")
    ELSE IF interval = "2-month"
    THEN IF "Flux2_History" \notin DOMAIN d \/ "time_axis_2" \notin DOMAIN d
         THEN ValueError
         ELSE LightcurveOf4FGL(d, de, "Flux2_History", "time_axis_2",
                               "Sqrt_TS_History")
    ELSE ValueError

\* SourceCatalogObject4FGL.lightcurve (lines 641-693)
Lightcurve4FGL(d, de, interval) ==
    IF interval = "1-year"
    THEN IF "Flux_History" \notin DOMAIN d \/ "time_axis" \notin DOMAIN d
         THEN ValueError
         ELSE LightcurveOf4FGL(d, de, "Flux_History", "time_axis",
                               "Sqrt_TS_History")
    ELSE IF interval = "2-month"
    THEN IF "Flux2_History" \notin DOMAIN d \/ "time_axis_2" \notin DOMAIN d
         THEN ValueError
         ELSE LightcurveOf4FGL(d, de, "Flux2_History", "time_axis_2",
                               "Sqrt_TS2_History")
    ELSE ValueError

\* maps["flux_ul"].data[~is_ul] = np.nan
MaskedUl(flux_ul, flux_errn) ==
    [i \in DOMAIN flux_ul |-> IF np_isnan(flux_errn[i]) THEN flux_ul[i] ELSE NaN]

\* the maps of the 3FGL light curve (lines 972-986)
Maps3FGL(d) ==
    LET flux == d["Flux_History"]
        unc == d["Unc_Flux_History"]
        flux_errp == [i \in DOMAIN unc |-> unc[i][2]]
        flux_errn == [i \in DOMAIN unc |-> Neg(unc[i][1])]
    IN  [flux |-> flux,
         flux_errp |-> flux_errp,
         flux_errn |-> flux_errn,
         flux_ul |-> MaskedUl(UlOfBins(flux, flux_errp), flux_errn)]

\* SourceCatalogObject3FGL.lightcurve (lines 964-993)
Lightcurve3FGL(d, de) ==
    LET reference_model == SkyModelFermi("3FGL", d, de, None)
    IN  IF {"time_axis", "Flux_History", "Unc_Flux_History"} \ DOMAIN d # {}
        THEN KeyError
        ELSE IF reference_model.k = "raise" THEN reference_model
        ELSE FluxPoints(d["time_axis"], Maps3FGL(d), reference_model)

(***************************************************************************)
(* The source objects for the light curves.                                *)
(***************************************************************************)
\* a time bin: flux, lower and upper error as catalogued, sqrt(TS)
HistoryBins ==
    [flux : {Num(1)}, lo : {NaN, Num(-1)}, hi : {Num(1), Num(2)},
     sqrt_ts : {Num(2)}]

TimeAxis(name, nbin) == [k |-> "time_axis", name |-> name, nbin |-> nbin]

\* the columns of the yearly history
History(b) ==
    [Flux_History |-> Field(b, "flux"),
     Unc_Flux_History |-> [i \in DOMAIN b |-> <<b[i].lo, b[i].hi>>],
     Sqrt_TS_History |-> Field(b, "sqrt_ts"),
     time_axis |-> TimeAxis("1-year", Len(b))]

\* the columns of the two-month history, with values of their own
History2(b) ==
    [Flux2_History |-> [i \in DOMAIN b |-> Add(b[i].flux, Num(10))],
     Unc_Flux2_History |->
        [i \in DOMAIN b |-> <<b[i].lo, Add(b[i].hi, Num(10))>>],
     Sqrt_TS2_History |-> [i \in DOMAIN b |-> Add(b[i].sqrt_ts, Num(1))],
     time_axis_2 |-> TimeAxis("2-month", Len(b))]

Removed(f, keys) == [c \in DOMAIN f \ keys |-> f[c]]

\* columns a version of the catalog may lack
OptionalHistory ==
    {"Flux_History", "time_axis", "Sqrt_TS_History",
     "Flux2_History", "time_axis_2", "Sqrt_TS2_History"}

\* point-like sources with a spectrum type that is known and one that is not
LightcurveSkyRows(c) ==
    {r \in SkyRows(c) :
        /\ r["Extended_Source_Name"] = <<>>
        /\ r["SpectrumType"] \in {<<"PowerLaw">>, <<"powerlaw">>}}

LightcurveRows4FGL ==
    {Removed(Updated(Updated(r, History(b)), History2(b)), absent) :
        r \in LightcurveSkyRows("4FGL"),
        b \in SeqsUpTo(HistoryBins, MaxBins),
        absent \in SUBSET OptionalHistory}

LightcurveRows3FGL ==
    {Removed(Updated(r, History(b)), absent) :
        r \in LightcurveSkyRows("3FGL"),
        b \in SeqsUpTo(HistoryBins, MaxBins),
        absent \in {{}, {"time_axis"}}}

InitLightcurve ==
    /\ cat \in {"3FGL", "4FGL"}
    /\ data \in IF cat = "4FGL" THEN LightcurveRows4FGL ELSE LightcurveRows3FGL
    /\ data_extended = None /\ data_spectral = None
    /\ aux = None /\ file = None /\ catalog = None
    /\ called = "none" /\ arg = "-" /\ ret = None /\ exc = "none"
    /\ consulted = {}

\* values of the interval argument
Intervals == {"1-year", "2-month", "1-month", ""}

lightcurve_4FGL ==
    /\ cat = "4FGL"
    /\ \E interval \in Intervals :
          Outcome("lightcurve", interval,
                  Lightcurve4FGL(data, data_extended, interval), {})

lightcurve_3FGL ==
    /\ cat = "3FGL"
    /\ Outcome("lightcurve", "-", Lightcurve3FGL(data, data_extended), {})

NextLightcurve ==
    \/ lightcurve_4FGL
    \/ lightcurve_3FGL

SpecLightcurve == InitLightcurve /\ [][NextLightcurve]_vars

(***************************************************************************)
(* Properties of the light curves (under SpecLightcurve).                  *)
(***************************************************************************)
LightcurveCalled(c) == called = "lightcurve" /\ cat = c

Has(column) == column \in DOMAIN data

\* the light curve returned holds the flux, the upper error, the test
\* statistic and the time axis of these columns
TakenFrom(flux, unc, sqrt_ts, axis) ==
    /\ Has(flux) /\ Has(unc) /\ Has(sqrt_ts) /\ Has(axis)
    /\ ret.k = "FluxPoints"
    /\ ret.maps.flux = data[flux]
    /\ DOMAIN ret.maps.flux_errp = DOMAIN data[unc]
    /\ \A i \in DOMAIN data[unc] :
          /\ ret.maps.flux_errp[i] = data[unc][i][2]
          /\ ret.maps.ts[i] = Num(data[sqrt_ts][i].v * data[sqrt_ts][i].v)
    /\ ret.time_axis = data[axis]

\* C15: lightcurve of 4FGL takes "1-year" (Flux_History, Sqrt_TS_History,
\* time_axis) and "2-month" (Flux2_History, Sqrt_TS2_History, time_axis_2)
\* and nothing else: any other interval raises ValueError, an accepted one
\* raises ValueError when its flux column or its time axis is not in the
\* row, and what is returned for an interval is taken from the columns of
\* that interval.
C15_Lightcurve4FGL ==
    LightcurveCalled("4FGL") =>
        /\ arg \notin {"1-year", "2-month"} => exc = "ValueError"
        /\ (arg = "1-year" /\ ~(Has("Flux_History") /\ Has("time_axis")))
              => exc = "ValueError"
        /\ (arg = "2-month" /\ ~(Has("Flux2_History") /\ Has("time_axis_2")))
              => exc = "ValueError"
        /\ (exc = "none" /\ arg = "1-year") =>
              TakenFrom("Flux_History", "Unc_Flux_History", "Sqrt_TS_History",
                        "time_axis")
        /\ (exc = "none" /\ arg = "2-month") =>
              TakenFrom("Flux2_History", "Unc_Flux2_History",
                        "Sqrt_TS2_History", "time_axis_2")
        /\ (/\ arg = "2-month"
            /\ Has("Flux2_History") /\ Has("time_axis_2")
            /\ Has("Sqrt_TS2_History")
            /\ data["SpectrumType"] = <<"PowerLaw">>) => exc = "none"
        /\ (/\ arg = "1-year"
            /\ Has("Flux_History") /\ Has("time_axis") /\ Has("Sqrt_TS_History")
            /\ data["SpectrumType"] = <<"PowerLaw">>) => exc = "none"

\* a row with both histories gave its two-month light curve
C15_Witness ==
    /\ LightcurveCalled("4FGL")
    /\ arg = "2-month"
    /\ OptionalHistory \subseteq DOMAIN data
    /\ exc = "none"
    /\ ret.k = "FluxPoints"
    /\ ret.time_axis.name = "2-month"
    /\ ret.maps.flux # data["Flux_History"]

\* the lower error of time bin i, as catalogued
HistoryLowerError(i) ==
    IF arg = "2-month" THEN data["Unc_Flux2_History"][i][1]
    ELSE data["Unc_Flux_History"][i][1]

UlOfLightcurve(i) ==
    IF HistoryLowerError(i) = NaN
    THEN ret.maps.flux_ul[i]
           = Num(2 * ret.maps.flux_errp[i].v + ret.maps.flux[i].v)
    ELSE ret.maps.flux_ul[i] = NaN

\* C19: in the light curves of 3FGL and of 4FGL, flux_ul of a time bin is
\* 2 * flux_errp + flux when the lower error of the bin is NaN and NaN when
\* it is not.
C19_LightcurveUl ==
    (called = "lightcurve" /\ exc = "none") =>
        \A i \in DOMAIN ret.maps.flux_ul : UlOfLightcurve(i)

\* the part of C19 that holds: the light curve of 3FGL
C19_LightcurveUl3FGL ==
    (LightcurveCalled("3FGL") /\ exc = "none") =>
        \A i \in DOMAIN ret.maps.flux_ul : UlOfLightcurve(i)

\* a 3FGL light curve with a bin that is an upper limit and one that is not
C19_Witness3FGL ==
    /\ LightcurveCalled("3FGL")
    /\ exc = "none"
    /\ \E i, j \in DOMAIN ret.maps.flux_ul :
          ret.maps.flux_ul[i] = NaN /\ ret.maps.flux_ul[j] # NaN

(***************************************************************************)
(* SourceCatalog4FGL.__init__ (lines 1920-1966).  The file is the record   *)
(* of its extensions, None standing for an extension the file lacks; the   *)
(* catalog is the record of the attributes the constructor sets.           *)
(***************************************************************************)
\* an attribute that was never assigned
Unset == [k |-> "unset"]

AttributeError == [k |-> "raise", error |-> "AttributeError"]

\* the metadata of extension hdu, with these keys
Meta(hdu, keys) == [k |-> "meta", of |-> hdu, keys |-> keys]

\* Table.read(filename, hdu=hdu) of an extension that is there
HduTable(hdu, meta) == [k |-> "table", hdu |-> hdu, meta |-> meta]

Digits == {"0", "1", "2", "3", "4", "5", "6", "7", "8", "9"}

DigitValue(c) ==
    CASE c = "0" -> 0 [] c = "1" -> 1 [] c = "2" -> 2 [] c = "3" -> 3
      [] c = "4" -> 4 [] c = "5" -> 5 [] c = "6" -> 6 [] c = "7" -> 7
      [] c = "8" -> 8 [] c = "9" -> 9

\* int("".join(filter(str.isdigit, text)))
RECURSIVE DigitsToInt(_, _)
DigitsToInt(text, n) ==
    IF text = <<>> THEN n
    ELSE IF Head(text) \in Digits
    THEN DigitsToInt(Tail(text), 10 * n + DigitValue(Head(text)))
    ELSE DigitsToInt(Tail(text), n)

VersionOf(f) == DigitsToInt(f.VERSION, 0)

\* the first try block (lines 1949-1954): hist_table after it
HistTableOf(f) ==
    IF f.Hist_Start = None THEN Unset
    ELSE IF "MJDREFI" \notin f.Hist_Start.meta.keys /\ f.GTI # None
    THEN [f.Hist_Start EXCEPT !.meta = f.GTI.meta]
    ELSE f.Hist_Start

\* the second try block (lines 1955-1960): hist2_table after it, or the
\* AttributeError of self.hist_table when hist_table was never assigned,
\* which `except KeyError` does not catch
Hist2TableOf(f, hist_table) ==
    IF f.Hist2_Start = None THEN Unset
    ELSE IF hist_table = Unset THEN AttributeError
    ELSE IF "MJDREFI" \notin hist_table.meta.keys /\ f.GTI # None
    THEN [f.Hist2_Start EXCEPT !.meta = f.GTI.meta]
    ELSE f.Hist2_Start

\* the catalog the constructor builds, or what it raises
Catalog4FGL(f) ==
    LET hist_table == HistTableOf(f)
        hist2_table == Hist2TableOf(f, hist_table)
    IN  IF hist2_table.k = "raise" THEN hist2_table
        ELSE [k |-> "catalog", version |-> VersionOf(f),
              hist_table |-> hist_table, hist2_table |-> hist2_table]

\* the VERSION of the main table
VersionTexts ==
    {<<"v", "3", "2">>, <<"v", "2", "7">>, <<"3", "1">>, <<"v", "2", "8">>}

MetaKeys == {{}, {"MJDREFI"}}

Extension(hdu) ==
    {None} \cup {HduTable(hdu, Meta(hdu, keys)) : keys \in MetaKeys}

Files4FGL ==
    [VERSION : VersionTexts, Hist_Start : Extension("Hist_Start"),
     Hist2_Start : Extension("Hist2_Start"), GTI : Extension("GTI")]

InitCatalog4FGL ==
    /\ cat = "4FGL"
    /\ file \in Files4FGL
    /\ catalog = None
    /\ data = EmptyRow /\ data_extended = None /\ data_spectral = None
    /\ aux = None
    /\ called = "none" /\ arg = "-" /\ ret = None /\ exc = "none"
    /\ consulted = {}

\* SourceCatalog4FGL(filename): the catalog is there when nothing is raised
init_SourceCatalog4FGL ==
    /\ cat = "4FGL"
    /\ file # None
    /\ catalog = None
    /\ LET built == Catalog4FGL(file)
       IN  /\ called' = "__init__"
           /\ arg' = "-"
           /\ ret' = None
           /\ exc' = IF built.k = "raise" THEN built.error ELSE "none"
           /\ catalog' = IF built.k = "raise" THEN Unset ELSE built
    /\ consulted' = {}
    /\ UNCHANGED <<cat, data, data_extended, data_spectral, aux, file>>

NextCatalog4FGL == init_SourceCatalog4FGL

SpecCatalog4FGL == InitCatalog4FGL /\ [][NextCatalog4FGL]_vars

(***************************************************************************)
(* Properties of the constructor (under SpecCatalog4FGL).                  *)
(***************************************************************************)
Constructed == called = "__init__"

\* the attribute holds the table of extension hdu when the file has it and
\* is unset when it has not
LoadedOrUnset(attribute, hdu) ==
    IF file[hdu] = None THEN attribute = Unset
    ELSE attribute # Unset /\ attribute.hdu = hdu

MetaAsClaimed(hdu) ==
    IF "MJDREFI" \in file[hdu].meta.keys THEN file[hdu].meta
    ELSE file.GTI.meta

\* C17: of the history tables loaded from a file with a GTI extension, each
\* one whose own metadata lacks MJDREFI has the metadata of GTI and each one
\* whose own metadata has MJDREFI keeps it; hist2_table is judged by its own
\* metadata.
C17_HistoryMeta ==
    (Constructed /\ exc = "none" /\ file.GTI # None) =>
        /\ file.Hist_Start # None =>
              catalog.hist_table.meta = MetaAsClaimed("Hist_Start")
        /\ file.Hist2_Start # None =>
              catalog.hist2_table.meta = MetaAsClaimed("Hist2_Start")

(***************************************************************************)
(* The spectral section of the report and the spectral model of 3FGL       *)
(* (under SpecInfo).                                                       *)
(***************************************************************************)
\* C18: for every SpectrumType of a 3FGL source, info("spectral") raises
\* ValueError exactly when spectral_model() raises ValueError.
C18_InfoAgreesWithModel ==
    (called = "info" /\ cat = "3FGL" /\ arg = Str(<<"spectral">>)) =>
        (exc = "ValueError" <=> SpectralModel3FGL(data) = ValueError)

(***************************************************************************)
(* The upper limits of the 2PC flux points (under SpecFluxPoints).         *)
(***************************************************************************)
Table2PC == called = "flux_points_table" /\ cat = "2PC" /\ ret # None

\* C20: a bin of the 2PC flux-point table is an upper limit exactly when
\* its Unc_EnergyFlux is zero, a NaN uncertainty not being flagged; for an
\* upper limit flux_ul = 2 * flux_err + flux and
\* e2dnde_ul = 2 * e2dnde_err + e2dnde, which is e2dnde itself.
C20_UpperLimits2PC ==
    Table2PC =>
        \A i \in DOMAIN ret.is_ul :
            /\ ret.is_ul[i] <=> aux.Unc_EnergyFlux[i] = Num(0)
            /\ aux.Unc_EnergyFlux[i] = NaN => ~ret.is_ul[i]
            /\ ret.is_ul[i] =>
                  /\ ret.flux_ul[i]
                       = IF aux.Unc_PhotonFlux[i] = NaN THEN NaN
                         ELSE Num(2 * aux.Unc_PhotonFlux[i].v
                                  + aux.PhotonFlux[i].v)
                  /\ ret.e2dnde_ul[i]
                       = Num(2 * aux.Unc_EnergyFlux[i].v + aux.EnergyFlux[i].v)
                  /\ ret.e2dnde_ul[i] = ret.e2dnde[i]

\* a table with a bin of zero uncertainty and a bin of NaN uncertainty
C20_Witness ==
    /\ Table2PC
    /\ \E i, j \in DOMAIN ret.is_ul :
          /\ aux.Unc_EnergyFlux[i] = Num(0) /\ ret.is_ul[i]
          /\ aux.Unc_PhotonFlux[i] = Num(1)
          /\ ret.flux_ul[i] = Num(2 + aux.PhotonFlux[i].v)
          /\ aux.Unc_EnergyFlux[j] = NaN /\ ~ret.is_ul[j]

(***************************************************************************)
(* The templates of 4FGL: the catalog is constructed from its file, then   *)
(* a source of it is asked for its spatial model.                          *)
(***************************************************************************)
\* self.extended_sources_table["version"] = int(...) (lines 1945-1948): the
\* row of the table of extended sources a source of catalog c is given
ExtendedRowOf(c, de) ==
    IF de = None THEN None ELSE Updated(de, [version |-> c.version])

\* files without the optional history extensions
TemplateFiles4FGL ==
    [VERSION : VersionTexts, Hist_Start : {None}, Hist2_Start : {None},
     GTI : {None}]

InitTemplate4FGL ==
    /\ cat = "4FGL"
    /\ file \in TemplateFiles4FGL
    /\ catalog = None
    /\ data \in PositionRowsConf95
    /\ data_extended \in {None} \cup ExtendedRows
    /\ data_spectral = None /\ aux = None
    /\ called = "none" /\ arg = "-" /\ ret = None /\ exc = "none"
    /\ consulted = {}

\* SourceCatalogObject4FGL.spatial_model of a source of the constructed
\* catalog (lines 491-533)
spatial_model_4FGL_of_catalog ==
    /\ cat = "4FGL"
    /\ catalog # None /\ catalog # Unset
    /\ Outcome("spatial_model", "-",
               SpatialModel4FGL(data, ExtendedRowOf(catalog, data_extended)),
               ExtendedRead(is_pointlike_base(data)))

NextTemplate4FGL ==
    \/ init_SourceCatalog4FGL
    \/ spatial_model_4FGL_of_catalog

SpecTemplate4FGL == InitTemplate4FGL /\ [][NextTemplate4FGL]_vars

(***************************************************************************)
(* Properties of the 4FGL templates (under SpecTemplate4FGL).              *)
(***************************************************************************)
\* the digits of a text, in order
DigitsOf(text) == SelectSeq(text, LAMBDA c : c \in Digits)

\* the integer a string of digits spells
RECURSIVE Decimal(_)
Decimal(digits) ==
    IF digits = <<>> THEN 0
    ELSE 10 * Decimal(SubSeq(digits, 1, Len(digits) - 1))
         + DigitValue(digits[Len(digits)])

\* the source is extended, has its row and a template morphology
TemplateSource4FGL ==
    /\ ~FlagPointlike
    /\ data_extended # None
    /\ strip(data_extended["Model_Form"])
         \in {<<"Map">>, <<"Ring">>, <<"2D", " ", "Gaussian", " ", "x2">>}

\* C21: for a 4FGL extended source with a template morphology the template
\* is read from the file Spatial_Filename (stripped) + ".gz" in the
\* directory the version alone chooses: LAT_extended_sources_8years below
\* 28, Extended_12years from 28 to 31, Extended_14years from 32 on, the
\* version being the integer the digits of VERSION spell.
C21_TemplateDirectory ==
    (SpatialCalled /\ cat = "4FGL" /\ TemplateSource4FGL) =>
        LET version == Decimal(DigitsOf(file.VERSION))
        IN  /\ ReturnsFamily("TemplateSpatialModel")
            /\ ret.filename
                 = strip(data_extended["Spatial_Filename"]) \o <<".gz">>
            /\ version < 28 => ret.path = "LAT_extended_sources_8years"
            /\ (28 <= version /\ version < 32) => ret.path = "Extended_12years"
            /\ version >= 32 => ret.path = "Extended_14years"

\* a template of the catalog of version 28, its file name padded
C21_Witness ==
    /\ SpatialCalled /\ cat = "4FGL" /\ TemplateSource4FGL
    /\ catalog.version = 28
    /\ ret.path = "Extended_12years"
    /\ ret.filename = <<"W44.fits", ".gz">>
    /\ data_extended["Spatial_Filename"] # <<"W44.fits">>

(***************************************************************************)
(* The position errors of the spatial models (under SpecSpatial).          *)
(***************************************************************************)
\* the row has the 68% error of 2FHL
HasPosErr68 == "Pos_err_68" \in DOMAIN data

\* the position errors and the angle a model that is not a template is to
\* have
PositionErrorsSet ==
    IF HasPosErr68
    THEN /\ ret.errs.lon_0
              = PositionError(data["Pos_err_68"], 68, data["DEJ2000"])
         /\ ret.errs.lat_0 = PositionError(data["Pos_err_68"], 68, None)
         /\ ret.phi_0 = Num(0)
    ELSE /\ ret.errs.lon_0
              = PositionError(data["Conf_95_SemiMinor"], 95, data["DEJ2000"])
         /\ ret.errs.lat_0
              = PositionError(data["Conf_95_SemiMajor"], 95, None)
         /\ ret.phi_0 = IF data["Conf_95_PosAng"] = NaN THEN Num(0)
                        ELSE data["Conf_95_PosAng"]

\* the template as TemplateSpatialModel.read gave it: the path and the file
\* name and nothing else
AsRead == DOMAIN ret = {"k", "tag", "path", "filename"}

energy_edges(c) ==
    CASE c = "3FGL" -> <<100, 300, 1000, 3000, 10000, 100000>>
      [] c = "2FHL" -> <<50, 171, 585, 2000>>
      [] c = "3FHL" -> <<10, 20, 50, 150, 500, 2000>>
      [] c = "3PC" -> <<50, 100, 300, 1000, 3000, 10000, 30000, 100000, 1000000>>

\* _energy_edges_suffix (lines 703-709, 1004)
energy_edges_suffix(c) ==
    CASE c = "3FGL" -> <<"100_300", "300_1000", "1000_3000", "3000_10000",
                         "10000_100000">>
      [] c = "2FHL" -> <<"50_171", "171_585", "585_2000">>

\* edges[:-1]
AllButLast_all(edges) == edges

AllButLast(edges) == SubSeq(edges, 1, Len(edges) - 1)

\* edges[1:]
AllButFirst(edges) == SubSeq(edges, 2, Len(edges))

\* np.unique: the values in increasing order, each once
RECURSIVE np_unique(_)
np_unique(values) ==
    IF values = {} THEN <<>>
    ELSE LET least == CHOOSE x \in values : \A y \in values : x <= y
         IN  <<least>> \o np_unique(values \ {least})

\* flux_points_energy_edges of SourceCatalog4FGL (lines 1962-1965), from the
\* EnergyBounds extension; the catalog gives it to each of its sources as
\* data["fp_energy_edges"]
flux_points_energy_edges(bounds) ==
    np_unique({bounds[i].LowerEnergy : i \in DOMAIN bounds}
              \cup {bounds[i].UpperEnergy : i \in DOMAIN bounds})

\* table["e_min"] = edges[:-1]; table["e_max"] = edges[1:]
EnergyColumns(edges) ==
    [e_min |-> AllButLast(edges), e_max |-> AllButFirst(edges)]

\* [self.data[prefix + _] for _ in self._energy_edges_suffix] (lines 957,
\* 961, 1135); the column prefix + suffix of the row is d[prefix][suffix]
get_flux_values(c, d, prefix) ==
    LET suffix == energy_edges_suffix(c)
    IN  [i \in DOMAIN suffix |-> d[prefix][suffix[i]]]

\* SourceCatalogObject4FGL.flux_points_table (lines 600-635)
BinnedTable4FGL(d) ==
    Updated(FluxPointsTable4FGL(d), EnergyColumns(d.fp_energy_edges))

\* SourceCatalogObject3FGL.flux_points_table (lines 923-958)
BinnedTable3FGL(d) ==
    Updated(FluxPointsTable3FGL(
                [Flux |-> get_flux_values("3FGL", d, "Flux"),
                 Unc_Flux |-> get_flux_values("3FGL", d, "Unc_Flux"),
                 nuFnu |-> get_flux_values("3FGL", d, "nuFnu"),
                 Sqrt_TS |-> get_flux_values("3FGL", d, "Sqrt_TS")]),
            EnergyColumns(energy_edges("3FGL")))

\* SourceCatalogObject2FHL.flux_points_table (lines 1114-1132)
BinnedTable2FHL(d) ==
    Updated(FluxPointsTable2FHL(
                [Flux |-> get_flux_values("2FHL", d, "Flux"),
                 Unc_Flux |-> get_flux_values("2FHL", d, "Unc_Flux")]),
            EnergyColumns(energy_edges("2FHL")))

\* SourceCatalogObject3FHL.flux_points_table (lines 1287-1321)
BinnedTable3FHL(d) ==
    Updated(FluxPointsTable3FHL(d), EnergyColumns(energy_edges("3FHL")))

\* SourceCatalogObject3PC.flux_points_table (lines 1820-1858); e_ref is
\* np.sqrt(e_min * e_max), kept as the pair it is the root of
BinnedTable3PC(fp_data) ==
    IF fp_data = None THEN None
    ELSE LET energies == EnergyColumns(energy_edges("3PC"))
         IN  Updated(FluxPointsTable3PC(fp_data),
                     Updated(energies,
                             [e_ref |-> [i \in DOMAIN energies.e_min |->
                                            <<energies.e_min[i],
                                              energies.e_max[i]>>]]))

(***************************************************************************)
(* The source objects for the energy bins.                                 *)
(***************************************************************************)
\* the bands of a row: n bands, the errors of band ul, if any, NaN
Bands(n, seed, ul) ==
    [i \in 1..n |->
        [flux |-> Num(1 + ((i + seed) % 2)),
         unc |-> IF i = ul THEN <<NaN, NaN>> ELSE <<Num(-1), Num(1)>>,
         nuFnu |-> Num(2),
         sig |-> Num(i % 4)]]

\* the columns prefix + suffix of a row
Suffixed(suffix, column) ==
    [x \in Range(suffix) |-> column[IndexOf(suffix, x)]]

BinnedRow3FGL(bins) ==
    LET suffix == energy_edges_suffix("3FGL")
    IN  [Flux |-> Suffixed(suffix, Field(bins, "flux")),
         Unc_Flux |-> Suffixed(suffix, Field(bins, "unc")),
         nuFnu |-> Suffixed(suffix, Field(bins, "nuFnu")),
         Sqrt_TS |-> Suffixed(suffix, Field(bins, "sig"))]

BinnedRow2FHL(bins) ==
    LET suffix == energy_edges_suffix("2FHL")
    IN  [Flux |-> Suffixed(suffix, Field(bins, "flux")),
         Unc_Flux |-> Suffixed(suffix, Field(bins, "unc"))]

\* the EnergyBounds extension of a 4FGL file: one row per band
EnergyBounds(edges) ==
    [i \in 1..(Len(edges) - 1) |->
        [LowerEnergy |-> edges[i], UpperEnergy |-> edges[i + 1]]]

\* the bands of the first release and of the later ones
BandEdges4FGL ==
    {<<50, 100, 300, 1000, 3000, 10000, 30000, 300000>>,
     <<50, 100, 300, 1000, 3000, 10000, 30000, 100000, 1000000>>}

BandRows(n) == {Bands(n, seed, ul) : seed \in Seeds, ul \in 0..n}

InitEnergyBins ==
    /\ cat \in {"3FGL", "4FGL", "2FHL", "3FHL", "3PC"}
    /\ \/ /\ cat = "4FGL"
          /\ \E edges \in BandEdges4FGL :
                /\ file = [EnergyBounds |-> EnergyBounds(edges)]
                /\ \E bins \in BandRows(Len(edges) - 1) :
                      data = Updated(Row4FGL(bins),
                                 [fp_energy_edges |->
                                     flux_points_energy_edges(file.EnergyBounds)])
          /\ data_spectral = None
       \/ /\ cat = "3FGL" /\ file = None
          /\ data \in {BinnedRow3FGL(b) : b \in BandRows(5)}
          /\ data_spectral = None
       \/ /\ cat = "2FHL" /\ file = None
          /\ data \in {BinnedRow2FHL(b) : b \in BandRows(3)}
          /\ data_spectral = None
       \/ /\ cat = "3FHL" /\ file = None
          /\ data \in {Row3FHL(b) : b \in BandRows(5)}
          /\ data_spectral = None
       \/ /\ cat = "3PC" /\ file = None
          /\ data = EmptyRow
          /\ data_spectral \in {None} \cup {Row4FGL(b) : b \in BandRows(8)}
    /\ data_extended = None /\ aux = None /\ catalog = None
    /\ called = "none" /\ arg = "-" /\ ret = None /\ exc = "none"
    /\ consulted = {}

binned_flux_points_table_4FGL ==
    /\ cat = "4FGL"
    /\ Returns("flux_points_table", "-", BinnedTable4FGL(data), {})

binned_flux_points_table_3FGL ==
    /\ cat = "3FGL"
    /\ Returns("flux_points_table", "-", BinnedTable3FGL(data), {})

binned_flux_points_table_2FHL ==
    /\ cat = "2FHL"
    /\ Returns("flux_points_table", "-", BinnedTable2FHL(data), {})

binned_flux_points_table_3FHL ==
    /\ cat = "3FHL"
    /\ Returns("flux_points_table", "-", BinnedTable3FHL(data), {})

binned_flux_points_table_3PC ==
    /\ cat = "3PC"
    /\ Returns("flux_points_table", "-", BinnedTable3PC(data_spectral),
               {"data_spectral"})

NextEnergyBins ==
    \/ binned_flux_points_table_4FGL
    \/ binned_flux_points_table_3FGL
    \/ binned_flux_points_table_2FHL
    \/ binned_flux_points_table_3FHL
    \/ binned_flux_points_table_3PC

SpecEnergyBins == InitEnergyBins /\ [][NextEnergyBins]_vars

(***************************************************************************)
(* Properties of the energy bins (under SpecEnergyBins).                   *)
(***************************************************************************)
\* the edges the table of the source is built from
EdgesOfSource ==
    IF cat = "4FGL" THEN data.fp_energy_edges ELSE energy_edges(cat)

\* the columns of values read from the row, of those a table can have
ValueColumns ==
    {"flux", "flux_errn", "flux_errp", "sqrt_ts"} \cap DOMAIN ret

\* the number of bins of the classes with fixed edges
BinsOf(c) ==
    CASE c = "3FGL" -> 5 [] c = "2FHL" -> 3 [] c = "3FHL" -> 5 [] c = "3PC" -> 8

TypeTexts2FHL ==
    {<<"PowerLaw">>, <<"LogParabola">>, <<"unknown">>, <<>>}

\* the rows of 2FHL, with and without a type column
SpectralRows2FHL ==
    LET plain == {Updated(NumericRow(Columns2FHL, seed),
                          [Source_Name |-> n, Unc_Flux50 |-> u]) :
                     seed \in Seeds, n \in SourceNames2FHL,
                     u \in {NaN, Num(1)}}
    IN  plain \cup {WithType(row, t) : row \in plain, t \in TypeTexts2FHL}

InitSpectral2FHL ==
    /\ cat = "2FHL"
    /\ data \in SpectralRows2FHL
    /\ data_extended = None /\ data_spectral = None /\ aux = None
    /\ file = None /\ catalog = None
    /\ called = "none" /\ arg = "-" /\ ret = None /\ exc = "none"
    /\ consulted = {}

spectral_model_2FHL ==
    /\ cat = "2FHL"
    /\ Outcome("spectral_model", "-", SpectralModel2FHL(data), {})

NextSpectral2FHL == spectral_model_2FHL

SpecSpectral2FHL == InitSpectral2FHL /\ [][NextSpectral2FHL]_vars

(***************************************************************************)
(* Properties of spectral_model of 2FHL (under SpecSpectral2FHL).          *)
(***************************************************************************)
\* C24: spectral_model of a 2FHL source branches on no type field: it
\* returns for every source a PowerLaw2SpectralModel with amplitude Flux50,
\* index Spectral_Index, emin 0.05 TeV and emax 2 TeV (50 and 2000 GeV),
\* with errors on amplitude and index only, and never raises.
C24_SpectralModel2FHL ==
    (called = "spectral_model" /\ cat = "2FHL") =>
        /\ exc = "none"
        /\ ret.k = "model" /\ ret.tag = "PowerLaw2SpectralModel"
        /\ ret.pars = [amplitude |-> data["Flux50"],
                       index |-> data["Spectral_Index"],
                       emin |-> Num(50), emax |-> Num(2000)]
        /\ DOMAIN ret.errs = {"amplitude", "index"}
        /\ ret.errs.amplitude = data["Unc_Flux50"]
        /\ ret.errs.index = data["Unc_Spectral_Index"]

\* the model of a source whose row names a type no class accepts
C24_Witness ==
    /\ called = "spectral_model" /\ cat = "2FHL"
    /\ "SpectrumType" \in DOMAIN data
    /\ data["SpectrumType"] = <<"unknown">>
    /\ exc = "none"
    /\ ret.tag = "PowerLaw2SpectralModel"
    /\ ret.pars.emax = Num(2000)
    /\ ret.errs.amplitude = NaN

=============================================================================
